---- MODULE Spec2Model ----
(***************************************************************************)
(* Model of the authentication helper layer: utils/auth.py (token          *)
(* validation, bearer-token extraction, user-info projection) and          *)
(* utils/cognito.py (the directory client and its error classification).   *)
(*                                                                         *)
(* Python values are tagged records, so that None, strings, integers and   *)
(* mappings stay distinct.  A string is a sequence of one-character        *)
(* strings.  The Japanese message literals of the source are written here  *)
(* in English; each definition names the literal it stands for.            *)
(***************************************************************************)
EXTENDS Integers, Sequences, FiniteSets, TLC

VARIABLES
    jwks_cache,   \* TokenValidator._jwks_cache of the long-lived validator
    op,           \* the operation last called, with its arguments
    result,       \* how that call ended: a returned value or a raised error
    calls,        \* the collaborator calls that call made, in order
    log,          \* what that call wrote to the log, in order
    threads       \* the validate_token calls that run concurrently on that
                  \* validator: where each is, and what it has read

vars == <<jwks_cache, op, result, calls, log, threads>>

(***************************************************************************)
(* Bounds of the model.                                                    *)
(***************************************************************************)
MaxPad == 1        \* leading / trailing whitespace of a header
MaxSep == 1        \* whitespace between scheme and token
MaxTok == 2        \* characters after the separator
MaxHeaders == 2    \* entries of an event's header mapping
MaxScopeLen == 3   \* characters of a scope claim
MaxTime == 2       \* clock values and expiry timestamps
MaxThreads == 2    \* validate_token calls that run concurrently

(***************************************************************************)
(* Python values.                                                          *)
(***************************************************************************)
None == [t |-> "None"]
Str(s) == [t |-> "str", v |-> s]
IntV(n) == [t |-> "int", v |-> n]
BoolV(b) == [t |-> "bool", v |-> b]
ListV(l) == [t |-> "list", v |-> l]

\* Python truthiness of the values the code tests with `not x` / `if x`.
Truthy(x) ==
    CASE x.t = "None" -> FALSE
      [] x.t = "str"  -> Len(x.v) > 0
      [] x.t = "int"  -> x.v # 0
      [] x.t = "bool" -> x.v
      [] x.t = "list" -> Len(x.v) > 0
      [] x.t = "dict" -> Len(x.items) > 0
      [] OTHER        -> TRUE

\* How a call ends.
Return(v) == [kind |-> "return", value |-> v]
Raise(e) == [kind |-> "raise", exc |-> e]

\* An exception: its class, its message (the parts of the formatted string),
\* and CognitoError's error_code and original_error.
Exc(cls, msg) == [cls |-> cls, msg |-> msg, error_code |-> None, original_error |-> None]
CognitoExc(cls, msg, code, cause) ==
    [cls |-> cls, msg |-> msg, error_code |-> code, original_error |-> cause]

Raised(r, cls) == r.kind = "raise" /\ r.exc.cls = cls

\* A log record: logger.warning / logger.error with the formatted message.
WarningLog(parts) == [level |-> "warning", msg |-> parts]
ErrorLog(parts) == [level |-> "error", msg |-> parts]

\* What one operation did: how it ended, the collaborator calls it made, and
\* what it logged.
Done(out, made, logged) == [out |-> out, calls |-> made, log |-> logged]

\* dict.get(key, default) on a dict kept as a record
Get(d, k, default) == IF k \in DOMAIN d THEN d[k] ELSE default

(***************************************************************************)
(* Characters and strings.                                                 *)
(***************************************************************************)
UpperCase == <<"A","B","C","D","E","F","G","H","I","J","K","L","M",
               "N","O","P","Q","R","S","T","U","V","W","X","Y","Z">>
LowerCase == <<"a","b","c","d","e","f","g","h","i","j","k","l","m",
               "n","o","p","q","r","s","t","u","v","w","x","y","z">>

\* str.lower() on one character
LowerMap ==
    [c \in {UpperCase[i] : i \in 1..26} |->
        LowerCase[CHOOSE i \in 1..26 : UpperCase[i] = c]]

LowerChar(c) == IF c \in DOMAIN LowerMap THEN LowerMap[c] ELSE c

\* str.lower()
Lower(s) == [i \in 1..Len(s) |-> LowerChar(s[i])]

\* str.isspace() on one character; also the regular expression's \s
IsSpace(c) == c \in {" ", "\t", "\n", "\r", "\f"}

\* str.strip(): drop leading and trailing whitespace
Strip(s) ==
    LET nonws == {i \in 1..Len(s) : ~IsSpace(s[i])}
    IN  IF nonws = {} THEN <<>>
        ELSE LET lo == CHOOSE i \in nonws : \A j \in nonws : i <= j
                 hi == CHOOSE i \in nonws : \A j \in nonws : i >= j
             IN  SubSeq(s, lo, hi)

\* str.split() with no argument: the maximal runs of non-whitespace, in order
RECURSIVE Split(_)
Split(s) ==
    IF s = <<>> THEN <<>>
    ELSE IF IsSpace(Head(s)) THEN Split(Tail(s))
    ELSE LET stops == {i \in 1..Len(s) : IsSpace(s[i])}
             n == IF stops = {} THEN Len(s)
                  ELSE (CHOOSE i \in stops : \A j \in stops : i <= j) - 1
         IN  <<SubSeq(s, 1, n)>> \o Split(SubSeq(s, n + 1, Len(s)))

\* All sequences over alphabet A of length at most n
RECURSIVE SeqsUpTo(_, _)
SeqsUpTo(A, n) ==
    IF n = 0 THEN {<<>>}
    ELSE LET shorter == SeqsUpTo(A, n - 1)
         IN  shorter \cup {Append(s, c) : s \in {t \in shorter : Len(t) = n - 1}, c \in A}

(***************************************************************************)
(* Messages of utils/auth.py.                                              *)
(***************************************************************************)
TokenRequiredMsg == <<"Token is required">>
TokenInvalidMsg == <<"token is invalid">>
TokenExpiredMsg == <<"token has expired">>
AuthRequiredMsg == <<"authentication is required">>
HeaderInvalidMsg == <<"authentication header is invalid">>
PoolIdRequiredMsg == <<"User pool ID is required">>

(***************************************************************************)
(* Exception classes: those of utils/cognito.py, and the library classes   *)
(* utils/auth.py imports and catches.                                      *)
(***************************************************************************)
Parent ==
    [CognitoError |-> "Exception",
     AuthenticationError |-> "CognitoError",
     AuthorizationError |-> "CognitoError",
     ValidationError |-> "CognitoError",
     ServiceError |-> "CognitoError",
     PyJWTError |-> "Exception",
     InvalidTokenError |-> "PyJWTError",
     DecodeError |-> "InvalidTokenError",
     InvalidSignatureError |-> "DecodeError",
     ExpiredSignatureError |-> "InvalidTokenError",
     InvalidAlgorithmError |-> "InvalidTokenError",
     InvalidKeyError |-> "PyJWTError",
     RequestException |-> "Exception",
     ConnectionError |-> "RequestException",
     Timeout |-> "RequestException",
     HTTPError |-> "RequestException",
     RequestsJSONDecodeError |-> "RequestException",
     ValueError |-> "Exception",
     AttributeError |-> "Exception",
     KeyError |-> "Exception"]

\* isinstance(e, cls), as an except clause tests it
RECURSIVE IsA(_, _)
IsA(c, cls) ==
    \/ c = cls
    \/ c \in DOMAIN Parent /\ IsA(Parent[c], cls)

(***************************************************************************)
(* TokenValidator                                                          *)
(***************************************************************************)
\* A JWK entry of the key set, and the key set documents.
Jwk(kid, material) == [kid |-> kid, material |-> material]

\* dict.get(key, default) on a mapping kept as its items
ItemGet(d, k, default) ==
    LET hits == {i \in 1..Len(d.items) : d.items[i].key = k}
    IN  IF hits = {} THEN default ELSE d.items[CHOOSE i \in hits : TRUE].value

\* TokenValidator.__init__: the key-discovery URL
JwksUrl(region, user_pool_id) ==
    <<"https://cognito-idp.">> \o region.v \o <<".amazonaws.com/">> \o user_pool_id.v
    \o <<"/.well-known/jwks.json">>

FetchCall(url) == [api |-> "requests.get", url |-> url, timeout |-> 10]

JwksFailedPrefix == "JWKS fetch failed: "
TokenValidationErrorPrefix == "error during token validation: "
NoGetMsg == <<"object has no attribute 'get'">>

\* What a step inside validate_token hands on: a value, or an exception on
\* its way to the except clauses; with the cache, the calls and the log so far.
Step(out, cache, made, logged) ==
    [out |-> out, cache |-> cache, calls |-> made, log |-> logged]

\* self._jwks_cache.get('keys', [])
KeysOf(jwks) == ItemGet(jwks, "keys", ListV(<<>>)).v

\* The positions of the keys whose kid is the one asked for.
MatchingKeys(keys, kid) == {i \in 1..Len(keys) : keys[i].kid = kid}

First(positions) == CHOOSE i \in positions : \A j \in positions : i <= j

\* jwt.algorithms.RSAAlgorithm.from_jwk(key)
FromJwk(key, jwks, made) ==
    IF key.material = "bad"
    THEN Step(Raise(Exc("InvalidKeyError", <<"Not a public or private key">>)), jwks,
              Append(made, [api |-> "RSAAlgorithm.from_jwk", kid |-> key.kid]), <<>>)
    ELSE Step(Return([material |-> key.material]), jwks,
              Append(made, [api |-> "RSAAlgorithm.from_jwk", kid |-> key.kid]), <<>>)

\* Variant: an unknown key id has a message of its own.
LookupKey_unknown_key_message(jwks, kid, made) ==
    IF jwks.t # "dict"
    THEN Step(Raise(Exc("AttributeError", NoGetMsg)), jwks, made, <<>>)
    ELSE IF MatchingKeys(KeysOf(jwks), kid) = {}
    THEN Step(Raise(Exc("AuthorizationError", <<"unknown signing key">>)), jwks, made, <<>>)
    ELSE FromJwk(KeysOf(jwks)[First(MatchingKeys(KeysOf(jwks), kid))], jwks, made)

\* The search of _get_public_key through the key set `jwks`, which is now
\* the cache.
LookupKey(jwks, kid, made) ==
    IF jwks.t # "dict"
    THEN Step(Raise(Exc("AttributeError", NoGetMsg)), jwks, made, <<>>)
    ELSE IF MatchingKeys(KeysOf(jwks), kid) = {}
    THEN Step(Raise(Exc("AuthorizationError", TokenInvalidMsg)), jwks, made, <<>>)
    ELSE FromJwk(KeysOf(jwks)[First(MatchingKeys(KeysOf(jwks), kid))], jwks, made)

\* Variant: the exception of the fetch is not caught in _get_public_key.
FetchRaised_not_caught(cache, url, e) ==
    Step(Raise(e), cache, <<FetchCall(url)>>, <<>>)

\* Variant: the Service error of a failed fetch has a fixed message.
FetchRaised_fixed_message(cache, url, e) ==
    IF IsA(e.cls, "RequestException")
    THEN Step(Raise(Exc("ServiceError", <<JwksFailedPrefix>>)), cache,
              <<FetchCall(url)>>, <<>>)
    ELSE Step(Raise(e), cache, <<FetchCall(url)>>, <<>>)

\* The fetch of _get_public_key raised: a RequestException becomes a Service
\* error, anything else goes on as it is; the cache is not assigned.
FetchRaised(cache, url, e) ==
    IF IsA(e.cls, "RequestException")
    THEN Step(Raise(Exc("ServiceError", <<JwksFailedPrefix>> \o e.msg)), cache,
              <<FetchCall(url)>>, <<>>)
    ELSE Step(Raise(e), cache, <<FetchCall(url)>>, <<>>)

\* Variant: the key set is fetched at every lookup.
_get_public_key_always_fetch(cache, url, kid, fetch) ==
    IF fetch.kind = "raise" THEN FetchRaised(cache, url, fetch.exc)
    ELSE LookupKey(fetch.value, kid, <<FetchCall(url)>>)

\* Variant: the cache is used whenever it is not None.
_get_public_key_cached_unless_none(cache, url, kid, fetch) ==
    IF cache # None THEN LookupKey(cache, kid, <<>>)
    ELSE IF fetch.kind = "raise" THEN FetchRaised(cache, url, fetch.exc)
    ELSE LookupKey(fetch.value, kid, <<FetchCall(url)>>)

\* TokenValidator._get_public_key: `fetch` is what requests.get, raise_for_status
\* and response.json() do if the key set is fetched.
_get_public_key(cache, url, kid, fetch) ==
    IF Truthy(cache) THEN LookupKey(cache, kid, <<>>)
    ELSE IF fetch.kind = "raise" THEN FetchRaised(cache, url, fetch.exc)
    ELSE LookupKey(fetch.value, kid, <<FetchCall(url)>>)

\* jwt.get_unverified_header(token): the header of the token, or DecodeError
JwtHeader(jwt) ==
    IF jwt.header_ok THEN Return([kid |-> jwt.kid])
    ELSE Raise(Exc("DecodeError", <<"Invalid header padding">>))

\* jwt.decode(token, public_key, algorithms=['RS256'], options={verify_aud: False,
\* verify_exp: True, verify_signature: True}): the algorithm, then the
\* signature, then the payload, then the expiry.
JwtDecode(jwt, public_key, now) ==
    IF jwt.alg # "RS256"
    THEN Raise(Exc("InvalidAlgorithmError", <<"The specified alg value is not allowed">>))
    ELSE IF jwt.signer # public_key.material
    THEN Raise(Exc("InvalidSignatureError", <<"Signature verification failed">>))
    ELSE IF ~jwt.payload_ok
    THEN Raise(Exc("DecodeError", <<"Invalid payload string">>))
    ELSE IF "exp" \in DOMAIN jwt.claims /\ jwt.claims.exp.v <= now
    THEN Raise(Exc("ExpiredSignatureError", <<"Signature has expired">>))
    ELSE Return(jwt.claims)

\* Variant: the expiry clause comes after the clause for invalid tokens.
ValidateTokenExcept_expiry_last(e) ==
    IF IsA(e.cls, "DecodeError") \/ IsA(e.cls, "InvalidTokenError")
       \/ IsA(e.cls, "InvalidSignatureError")
    THEN [out |-> Raise(Exc("AuthorizationError", TokenInvalidMsg)), log |-> <<>>]
    ELSE IF IsA(e.cls, "ExpiredSignatureError")
    THEN [out |-> Raise(Exc("AuthorizationError", TokenExpiredMsg)), log |-> <<>>]
    ELSE IF IsA(e.cls, "AuthorizationError") \/ IsA(e.cls, "ValidationError")
            \/ IsA(e.cls, "ServiceError")
    THEN [out |-> Raise(e), log |-> <<>>]
    ELSE [out |-> Raise(Exc("ServiceError", <<TokenValidationErrorPrefix>> \o e.msg)),
          log |-> <<ErrorLog(<<"Token validation error: ">> \o e.msg)>>]

\* Variant: there is no clause that re-raises the classified errors.
ValidateTokenExcept_no_reraise(e) ==
    IF IsA(e.cls, "ExpiredSignatureError")
    THEN [out |-> Raise(Exc("AuthorizationError", TokenExpiredMsg)), log |-> <<>>]
    ELSE IF IsA(e.cls, "DecodeError") \/ IsA(e.cls, "InvalidTokenError")
            \/ IsA(e.cls, "InvalidSignatureError")
    THEN [out |-> Raise(Exc("AuthorizationError", TokenInvalidMsg)), log |-> <<>>]
    ELSE [out |-> Raise(Exc("ServiceError", <<TokenValidationErrorPrefix>> \o e.msg)),
          log |-> <<ErrorLog(<<"Token validation error: ">> \o e.msg)>>]

\* The except clauses of validate_token, in their order: what is raised for
\* an exception e of the try block, and what is logged.
ValidateTokenExcept(e) ==
    IF IsA(e.cls, "ExpiredSignatureError")
    THEN [out |-> Raise(Exc("AuthorizationError", TokenExpiredMsg)), log |-> <<>>]
    ELSE IF IsA(e.cls, "DecodeError") \/ IsA(e.cls, "InvalidTokenError")
            \/ IsA(e.cls, "InvalidSignatureError")
    THEN [out |-> Raise(Exc("AuthorizationError", TokenInvalidMsg)), log |-> <<>>]
    ELSE IF IsA(e.cls, "AuthorizationError") \/ IsA(e.cls, "ValidationError")
            \/ IsA(e.cls, "ServiceError")
    THEN [out |-> Raise(e), log |-> <<>>]
    ELSE [out |-> Raise(Exc("ServiceError", <<TokenValidationErrorPrefix>> \o e.msg)),
          log |-> <<ErrorLog(<<"Token validation error: ">> \o e.msg)>>]

\* Variant: the token type is not checked.
TokenUseCheck_skipped(payload) == Return(payload)

\* The token-type check of validate_token on the decoded payload.
TokenUseCheck(payload) ==
    IF Get(payload, "token_use", None) # Str(<<"access">>)
    THEN Raise(Exc("AuthorizationError", TokenInvalidMsg))
    ELSE Return(payload)

ParseCall == [api |-> "jwt.get_unverified_header"]
DecodeCall == [api |-> "jwt.decode"]

\* validate_token after jwt.decode.
AfterDecode(payload, cache, made) ==
    IF payload.kind = "raise" THEN Step(payload, cache, made, <<>>)
    ELSE Step(TokenUseCheck(payload.value), cache, made, <<>>)

\* validate_token after _get_public_key.
AfterKey(k, jwt, now) ==
    IF k.out.kind = "raise" THEN Step(k.out, k.cache, <<ParseCall>> \o k.calls, <<>>)
    ELSE AfterDecode(JwtDecode(jwt, k.out.value, now), k.cache,
                     <<ParseCall>> \o k.calls \o <<DecodeCall>>)

\* validate_token after jwt.get_unverified_header.
AfterHeader(unverified_header, cache, url, jwt, fetch, now) ==
    IF unverified_header.kind = "raise"
    THEN Step(unverified_header, cache, <<ParseCall>>, <<>>)
    ELSE IF ~Truthy(unverified_header.value.kid)
    THEN Step(Raise(Exc("AuthorizationError", TokenInvalidMsg)), cache, <<ParseCall>>, <<>>)
    ELSE AfterKey(_get_public_key(cache, url, unverified_header.value.kid, fetch), jwt, now)

\* The try block of validate_token.
ValidateTokenTry(cache, url, jwt, fetch, now) ==
    AfterHeader(JwtHeader(jwt), cache, url, jwt, fetch, now)

\* The outcome of the try block `t` with the except clauses' verdict `h`.
Handled(t, h) == Step(h.out, t.cache, t.calls, h.log)

\* try / except of validate_token: a return passes, an exception goes
\* through the except clauses.
TryExcept(t) ==
    IF t.out.kind = "return" THEN t ELSE Handled(t, ValidateTokenExcept(t.out.exc))

\* Variant: the header is parsed before the token is tested for emptiness.
EmptyAfterParse(t) == Step(Raise(Exc("ValidationError", TokenRequiredMsg)), t.cache, t.calls, <<>>)

validate_token_parse_first(cache, url, token, jwt, fetch, now) ==
    IF ~Truthy(token) THEN EmptyAfterParse(ValidateTokenTry(cache, url, jwt, fetch, now))
    ELSE TryExcept(ValidateTokenTry(cache, url, jwt, fetch, now))

\* TokenValidator.validate_token on a validator whose cache is `cache` and
\* whose key-discovery URL is `url`.  `jwt` is what the JWT library reads in
\* the token string, `fetch` what the key-set fetch does, `now` the clock.
validate_token(cache, url, token, jwt, fetch, now) ==
    IF ~Truthy(token)
    THEN Step(Raise(Exc("ValidationError", TokenRequiredMsg)), cache, <<>>, <<>>)
    ELSE TryExcept(ValidateTokenTry(cache, url, jwt, fetch, now))

(***************************************************************************)
(* extract_token_from_header                                               *)
(***************************************************************************)
BearerWord == <<"b", "e", "a", "r", "e", "r">>

\* re.compile(r'^Bearer\s+(.+)$', re.IGNORECASE).match(s): the set of ways the
\* pattern matches s, as pairs <<i, j>>: \s+ takes s[7..i], the group s[i+1..j],
\* and $ holds at j (the end, or just before a final newline).
BearerMatches(s) ==
    IF Len(s) < 8 \/ \E k \in 1..6 : LowerChar(s[k]) # BearerWord[k] THEN {}
    ELSE {m \in (7..Len(s)) \X ((Len(s) - 1)..Len(s)) :
            /\ m[2] > m[1]
            /\ \/ m[2] = Len(s)
               \/ m[2] = Len(s) - 1 /\ s[Len(s)] = "\n"
            /\ \A k \in 7..m[1] : IsSpace(s[k])
            /\ \A k \in (m[1] + 1)..m[2] : s[k] # "\n"}

\* The match the backtracking engine reports: \s+ greedy first, then .+ greedy.
BearerGroup(s) ==
    LET ms == BearerMatches(s)
        best == CHOOSE m \in ms :
                    \A o \in ms : o[1] < m[1] \/ (o[1] = m[1] /\ o[2] <= m[2])
    IN  SubSeq(s, best[1] + 1, best[2])

\* Variant: the header is matched without strip().
extract_token_from_header_no_strip(h) ==
    IF ~Truthy(h) THEN Raise(Exc("ValidationError", AuthRequiredMsg))
    ELSE IF BearerMatches(h.v) = {}
         THEN Raise(Exc("AuthorizationError", HeaderInvalidMsg))
         ELSE Return(Str(BearerGroup(h.v)))

\* Variant: a header that does not match is reported as a missing one.
extract_token_from_header_no_match_validation(h) ==
    IF ~Truthy(h) THEN Raise(Exc("ValidationError", AuthRequiredMsg))
    ELSE LET s == Strip(h.v)
         IN  IF BearerMatches(s) = {}
             THEN Raise(Exc("ValidationError", AuthRequiredMsg))
             ELSE Return(Str(BearerGroup(s)))

extract_token_from_header(h) ==
    IF ~Truthy(h) THEN Raise(Exc("ValidationError", AuthRequiredMsg))
    ELSE LET s == Strip(h.v)
         IN  IF BearerMatches(s) = {}
             THEN Raise(Exc("AuthorizationError", HeaderInvalidMsg))
             ELSE LET token == BearerGroup(s)
                  IN  IF token = <<>>
                      THEN Raise(Exc("AuthorizationError", HeaderInvalidMsg))
                      ELSE Return(Str(token))

(***************************************************************************)
(* extract_token_from_event                                                *)
(***************************************************************************)
DictV(items) == [t |-> "dict", items |-> items]
Entry(k, v) == [key |-> k, value |-> v]

\* An event: whether it has a 'headers' field, and that field's value.
Event(has, hs) == [has_headers |-> has, headers |-> hs]

AuthorizationKey == <<"a","u","t","h","o","r","i","z","a","t","i","o","n">>

\* event.get('headers', {})
EventHeaders(event) == IF event.has_headers THEN event.headers ELSE DictV(<<>>)

\* Variant: the key is compared without lower().
FindAuthHeader_case_sensitive(items) ==
    LET hits == {i \in 1..Len(items) : items[i].key = AuthorizationKey}
    IN  IF hits = {} THEN None
        ELSE items[CHOOSE i \in hits : \A j \in hits : i <= j].value

\* The loop over headers.items(): the value of the first entry, in iteration
\* order, whose lowered key is 'authorization'; None when there is none.
FindAuthHeader(items) ==
    LET hits == {i \in 1..Len(items) : Lower(items[i].key) = AuthorizationKey}
    IN  IF hits = {} THEN None
        ELSE items[CHOOSE i \in hits : \A j \in hits : i <= j].value

NoItemsMsg == <<"'NoneType' object has no attribute 'items'">>

extract_token_from_event(event) ==
    LET headers == EventHeaders(event)
    IN  IF headers.t # "dict" THEN Raise(Exc("AttributeError", NoItemsMsg))
        ELSE LET auth_header == FindAuthHeader(headers.items)
             IN  IF ~Truthy(auth_header)
                 THEN Raise(Exc("ValidationError", AuthRequiredMsg))
                 ELSE extract_token_from_header(auth_header)

(***************************************************************************)
(* validate_and_extract_user_info and require_authentication               *)
(***************************************************************************)
\* An argument the caller left out, and the default the signature gives it.
Omitted == [t |-> "omitted"]

\* A parameter declared with the default None.
NoneIfOmitted(x) == IF x = Omitted THEN None ELSE x

\* Python's `a or b`
Or(a, b) == IF Truthy(a) THEN a ELSE b
DefaultRegion == Str(<<"us-east-1">>)
RegionOrDefault(region) == IF region = Omitted THEN DefaultRegion ELSE region

\* Variant: the scope is split at each single space.
RECURSIVE SplitAtSpaces(_)
SplitAtSpaces(s) ==
    LET stops == {i \in 1..Len(s) : s[i] = " "}
    IN  IF stops = {} THEN <<s>>
        ELSE LET n == CHOOSE i \in stops : \A j \in stops : i <= j
             IN  <<SubSeq(s, 1, n - 1)>> \o SplitAtSpaces(SubSeq(s, n + 1, Len(s)))

ScopeOf_split_at_spaces(payload) ==
    IF Truthy(Get(payload, "scope", None))
    THEN LET words == SplitAtSpaces(Get(payload, "scope", Str(<<>>)).v)
         IN  ListV([i \in 1..Len(words) |-> Str(words[i])])
    ELSE ListV(<<>>)

\* payload.get('scope', '').split() if payload.get('scope') else []
ScopeOf(payload) ==
    IF Truthy(Get(payload, "scope", None))
    THEN LET words == Split(Get(payload, "scope", Str(<<>>)).v)
         IN  ListV([i \in 1..Len(words) |-> Str(words[i])])
    ELSE ListV(<<>>)

\* The record validate_and_extract_user_info returns for a payload.
UserInfo(payload) ==
    [user_id |-> Get(payload, "sub", None),
     username |-> Get(payload, "username", None),
     client_id |-> Get(payload, "client_id", None),
     token_use |-> Get(payload, "token_use", None),
     scope |-> ScopeOf(payload),
     auth_time |-> Get(payload, "auth_time", None),
     iat |-> Get(payload, "iat", None),
     exp |-> Get(payload, "exp", None)]

ConstructCall(user_pool_id, region) ==
    [api |-> "TokenValidator", user_pool_id |-> user_pool_id, region |-> region]

\* validate_and_extract_user_info after validate_token.
AfterValidate(v, constructed) ==
    IF v.out.kind = "raise" THEN Done(v.out, <<constructed>> \o v.calls, v.log)
    ELSE Done(Return(UserInfo(v.out.value)), <<constructed>> \o v.calls, v.log)

\* Variant: the calls share the validator that lives across requests.
validate_and_extract_user_info_shared_validator(token, user_pool_id, region, jwt, fetch, now) ==
    IF ~Truthy(token)
    THEN Done(Raise(Exc("ValidationError", AuthRequiredMsg)), <<>>, <<>>)
    ELSE IF ~Truthy(user_pool_id)
    THEN Done(Raise(Exc("ValidationError", PoolIdRequiredMsg)), <<>>, <<>>)
    ELSE AfterValidate(
            validate_token(jwks_cache, JwksUrl(RegionOrDefault(region), user_pool_id),
                           token, jwt, fetch, now),
            ConstructCall(user_pool_id, RegionOrDefault(region)))

\* Variant: the pool id is checked before the token.
validate_and_extract_user_info_pool_first(token, user_pool_id, region, jwt, fetch, now) ==
    IF ~Truthy(user_pool_id)
    THEN Done(Raise(Exc("ValidationError", PoolIdRequiredMsg)), <<>>, <<>>)
    ELSE IF ~Truthy(token)
    THEN Done(Raise(Exc("ValidationError", AuthRequiredMsg)), <<>>, <<>>)
    ELSE AfterValidate(
            validate_token(None, JwksUrl(RegionOrDefault(region), user_pool_id),
                           token, jwt, fetch, now),
            ConstructCall(user_pool_id, RegionOrDefault(region)))

\* validate_and_extract_user_info: the validator is constructed in the call,
\* with an empty cache, and dropped when the call ends.
validate_and_extract_user_info(token, user_pool_id, region, jwt, fetch, now) ==
    IF ~Truthy(token)
    THEN Done(Raise(Exc("ValidationError", AuthRequiredMsg)), <<>>, <<>>)
    ELSE IF ~Truthy(user_pool_id)
    THEN Done(Raise(Exc("ValidationError", PoolIdRequiredMsg)), <<>>, <<>>)
    ELSE AfterValidate(
            validate_token(None, JwksUrl(RegionOrDefault(region), user_pool_id),
                           token, jwt, fetch, now),
            ConstructCall(user_pool_id, RegionOrDefault(region)))

\* The two calls require_authentication makes.
ExtractCall(event) == [api |-> "extract_token_from_event", event |-> event]
ValidateInfoCall(token, user_pool_id, region) ==
    [api |-> "validate_and_extract_user_info", token |-> token,
     user_pool_id |-> user_pool_id, region |-> region]

\* The outcome `d` of a call made after the calls `made`.
After(made, d) == Done(d.out, made \o d.calls, d.log)

\* require_authentication after extract_token_from_event.
AfterExtract(event, token, user_pool_id, region, jwt, fetch, now) ==
    IF token.kind = "raise" THEN Done(token, <<ExtractCall(event)>>, <<>>)
    ELSE After(<<ExtractCall(event), ValidateInfoCall(token.value, user_pool_id, region)>>,
               validate_and_extract_user_info(token.value, user_pool_id, region,
                                              jwt, fetch, now))

\* Variant: the region left out is the region of the test's pool.
require_authentication_pool_region(event, user_pool_id, region, jwt, fetch, now) ==
    AfterExtract(event, extract_token_from_event(event), user_pool_id,
                 IF region = Omitted THEN Str(<<"ap-northeast-1">>) ELSE region,
                 jwt, fetch, now)

\* require_authentication
require_authentication(event, user_pool_id, region, jwt, fetch, now) ==
    AfterExtract(event, extract_token_from_event(event), user_pool_id,
                 RegionOrDefault(region), jwt, fetch, now)

(***************************************************************************)
(* Inputs of the extractor.                                                *)
(***************************************************************************)
WsChars == {" ", "\n"}
BodyChars == {"x", " ", "\n"}

BearerVariants == {<<"B","e","a","r","e","r">>, <<"b","e","a","r","e","r">>,
                   <<"B","E","A","R","E","R">>, <<"b","E","a","R","e","R">>}
Schemes == BearerVariants \cup {<<"B","a","s","i","c">>,
                                 <<"B","e","a","r","e","r","x">>, <<>>}

\* A header value assembled from its parts.
HeaderParts(maxPad, maxSep, maxTok) ==
    [lead : SeqsUpTo(WsChars, maxPad), scheme : Schemes,
     sep : SeqsUpTo(WsChars, maxSep), body : SeqsUpTo(BodyChars, maxTok),
     trail : SeqsUpTo(WsChars, maxPad)]

Join(p) == p.lead \o p.scheme \o p.sep \o p.body \o p.trail

HeaderKeys == {<<"A","u","t","h","o","r","i","z","a","t","i","o","n">>,
               AuthorizationKey,
               <<"A","u","T","h","O","r","I","z","A","t","I","o","N">>,
               <<"C","o","n","t","e","n","t","-","T","y","p","e">>}

\* Header values inside an event: None, and short header strings.
EventHeaderValues ==
    {None} \cup {Str(sch \o sp \o b) :
                    sch \in {<<"B","e","a","r","e","r">>, <<"B","a","s","i","c">>},
                    sp \in {<<>>, <<" ">>}, b \in {<<>>, <<"x">>}}

RECURSIVE MappingsUpTo(_)
MappingsUpTo(n) ==
    IF n = 0 THEN {<<>>}
    ELSE LET shorter == MappingsUpTo(n - 1)
         IN  shorter \cup
             {Append(m, Entry(k, v)) :
                 m \in {t \in shorter : Len(t) = n - 1},
                 k \in HeaderKeys, v \in EventHeaderValues}

\* A mapping has no key twice.
IsMapping(m) == \A i, j \in 1..Len(m) : m[i].key = m[j].key => i = j

Events ==
    {Event(FALSE, None), Event(TRUE, None)}
    \cup {Event(TRUE, DictV(m)) : m \in {t \in MappingsUpTo(MaxHeaders) : IsMapping(t)}}

(***************************************************************************)
(* utils/cognito.py: the directory client.                                 *)
(*                                                                         *)
(* A Python dict with fixed keys is a record whose DOMAIN is the set of    *)
(* keys present.  A string that is only passed along is a one-part string. *)
(***************************************************************************)
AuthFailedMsg == <<"authentication failed">>
AccessDeniedMsg == <<"access denied">>
BadRequestPrefix == "invalid request: "
ServiceErrorPrefix == "service error occurred: "
UnexpectedErrorPrefix == "unexpected error occurred: "

AuthenticationCodes == {"NotAuthorizedException", "UserNotFoundException",
                        "UserNotConfirmedException", "PasswordResetRequiredException"}
AuthorizationCodes == {"AccessDeniedException", "UnauthorizedOperation"}
ValidationCodes == {"InvalidParameterException", "InvalidPasswordException",
                    "UsernameExistsException", "AliasExistsException"}
ServiceCodes == {"InternalErrorException", "TooManyRequestsException",
                 "ResourceNotFoundException"}

\* botocore's ClientError carrying the provider's response
ClientError(response) == [cls |-> "ClientError", response |-> response,
                          msg |-> <<"An error occurred">>]

\* Variant: the validation branch lists only the two parameter codes, and
\* UserNotFoundException is listed with the service codes.
ErrorBranch_moved_codes(error_code) ==
    IF error_code \in AuthenticationCodes \ {"UserNotFoundException"} THEN "authentication"
    ELSE IF error_code \in AuthorizationCodes THEN "authorization"
    ELSE IF error_code \in {"InvalidParameterException", "InvalidPasswordException"}
    THEN "validation"
    ELSE IF error_code \in ServiceCodes \cup {"UserNotFoundException"} THEN "service"
    ELSE "other"

\* The if / elif chain of _handle_client_error: the branch a code takes.
ErrorBranch(error_code) ==
    IF error_code \in AuthenticationCodes THEN "authentication"
    ELSE IF error_code \in AuthorizationCodes THEN "authorization"
    ELSE IF error_code \in ValidationCodes THEN "validation"
    ELSE IF error_code \in ServiceCodes THEN "service"
    ELSE "other"

\* Variant: the validation branch raises a fixed message.
BranchError_fixed_validation_message(branch, error_code, error_message, error) ==
    CASE branch = "authentication" ->
            CognitoExc("AuthenticationError", AuthFailedMsg, Str(<<error_code>>), error)
      [] branch = "authorization" ->
            CognitoExc("AuthorizationError", AccessDeniedMsg, Str(<<error_code>>), error)
      [] branch = "validation" ->
            CognitoExc("ValidationError", <<BadRequestPrefix>>, Str(<<error_code>>), error)
      [] branch = "service" ->
            CognitoExc("ServiceError", <<ServiceErrorPrefix, error_message>>,
                       Str(<<error_code>>), error)
      [] branch = "other" ->
            CognitoExc("ServiceError", <<UnexpectedErrorPrefix, error_message>>,
                       Str(<<error_code>>), error)

\* The error each branch raises.
BranchError(branch, error_code, error_message, error) ==
    CASE branch = "authentication" ->
            CognitoExc("AuthenticationError", AuthFailedMsg, Str(<<error_code>>), error)
      [] branch = "authorization" ->
            CognitoExc("AuthorizationError", AccessDeniedMsg, Str(<<error_code>>), error)
      [] branch = "validation" ->
            CognitoExc("ValidationError", <<BadRequestPrefix, error_message>>,
                       Str(<<error_code>>), error)
      [] branch = "service" ->
            CognitoExc("ServiceError", <<ServiceErrorPrefix, error_message>>,
                       Str(<<error_code>>), error)
      [] branch = "other" ->
            CognitoExc("ServiceError", <<UnexpectedErrorPrefix, error_message>>,
                       Str(<<error_code>>), error)

\* Variant: nothing is logged before the classified error is raised.
_handle_client_error_unlogged(error, context) ==
    IF "Error" \notin DOMAIN error.response
    THEN Done(Raise(Exc("KeyError", <<"'Error'">>)), <<>>, <<>>)
    ELSE IF "Code" \notin DOMAIN error.response.Error
    THEN Done(Raise(Exc("KeyError", <<"'Code'">>)), <<>>, <<>>)
    ELSE IF "Message" \notin DOMAIN error.response.Error
    THEN Done(Raise(Exc("KeyError", <<"'Message'">>)), <<>>, <<>>)
    ELSE Done(Raise(BranchError(ErrorBranch(error.response.Error.Code),
                                error.response.Error.Code,
                                error.response.Error.Message, error)),
              <<>>, <<>>)

\* CognitoClient._handle_client_error: always raises.  Reading a field the
\* provider's error lacks raises KeyError before anything is logged.
_handle_client_error(error, context) ==
    IF "Error" \notin DOMAIN error.response
    THEN Done(Raise(Exc("KeyError", <<"'Error'">>)), <<>>, <<>>)
    ELSE IF "Code" \notin DOMAIN error.response.Error
    THEN Done(Raise(Exc("KeyError", <<"'Code'">>)), <<>>, <<>>)
    ELSE IF "Message" \notin DOMAIN error.response.Error
    THEN Done(Raise(Exc("KeyError", <<"'Message'">>)), <<>>, <<>>)
    ELSE LET error_code == error.response.Error.Code
             error_message == error.response.Error.Message
         IN  Done(Raise(BranchError(ErrorBranch(error_code), error_code,
                                    error_message, error)),
                  <<>>,
                  <<WarningLog(<<context, ": ", error_code, " - ", error_message>>)>>)

\* CognitoClient._normalize_auth_response
_normalize_auth_response(response) ==
    LET auth_result == Get(response, "AuthenticationResult", [x \in {} |-> None])
    IN  [access_token |-> Get(auth_result, "AccessToken", None),
         refresh_token |-> Get(auth_result, "RefreshToken", None),
         id_token |-> Get(auth_result, "IdToken", None),
         token_type |-> Get(auth_result, "TokenType", Str(<<"Bearer">>)),
         expires_in |-> Get(auth_result, "ExpiresIn", IntV(3600))]

\* attributes[attr['Name']] = attr['Value'] over the list: the last value
\* given for a name, None when the name is not in the list.
AttributeOf(attrs, name) ==
    LET hits == {i \in 1..Len(attrs) : attrs[i].Name = name}
    IN  IF hits = {} THEN None
        ELSE attrs[CHOOSE i \in hits : \A j \in hits : i >= j].Value

\* CognitoClient._normalize_user_response
_normalize_user_response(response) ==
    LET attrs == Get(response, "UserAttributes", <<>>)
    IN  [user_id |-> AttributeOf(attrs, "sub"),
         username |-> Get(response, "Username", None),
         email |-> AttributeOf(attrs, "email"),
         attributes |->
            [email_verified |-> BoolV(AttributeOf(attrs, "email_verified") = Str(<<"true">>)),
             given_name |-> AttributeOf(attrs, "given_name"),
             family_name |-> AttributeOf(attrs, "family_name"),
             phone_number |-> AttributeOf(attrs, "phone_number")]]

\* CognitoClient._normalize_create_user_response
_normalize_create_user_response(response) ==
    LET user == Get(response, "User", [x \in {} |-> None])
    IN  [success |-> BoolV(TRUE),
         user_id |-> Get(user, "Username", None),
         status |-> Get(user, "UserStatus", None),
         created |-> Get(user, "UserCreateDate", None),
         message |-> <<"User created successfully">>]

\* The configuration of the client instance.
ClientId == Str(<<"client-1">>)
UserPoolId == Str(<<"pool-1">>)

\* What the normalization of `response` does: it returns `value`; on a
\* response that is no mapping (None) response.get raises AttributeError.
Normalized(response, value) ==
    IF response = None THEN Raise(Exc("AttributeError", <<"'NoneType' ">> \o NoGetMsg))
    ELSE Return(value)

\* `except Exception as e` of an operation: the ServiceError that wraps e.
Unexpected(unexpected, e) ==
    Raise(CognitoExc("ServiceError", <<unexpected>> \o e.msg, None, e))

\* Variant: a provider call that failed without a provider error is made a
\* second time.
ProviderCall_retry(call, reply, normalized, context, unexpected) ==
    CASE reply.kind = "ok" ->
            IF normalized.kind = "return" THEN Done(normalized, <<call>>, <<>>)
            ELSE Done(Unexpected(unexpected, normalized.exc), <<call>>, <<>>)
      [] reply.kind = "client_error" ->
            LET h == _handle_client_error(reply.error, context)
            IN  Done(h.out, <<call>>, h.log)
      [] reply.kind = "error" ->
            Done(Unexpected(unexpected, reply.error), <<call, call>>, <<>>)

\* One provider call inside try / except ClientError / except Exception:
\* `reply` is what the provider call does, `normalized` what the
\* normalization of its response does, `context` and `unexpected` the two
\* message prefixes.
ProviderCall(call, reply, normalized, context, unexpected) ==
    CASE reply.kind = "ok" ->
            IF normalized.kind = "return" THEN Done(normalized, <<call>>, <<>>)
            ELSE Done(Unexpected(unexpected, normalized.exc), <<call>>, <<>>)
      [] reply.kind = "client_error" ->
            LET h == _handle_client_error(reply.error, context)
            IN  Done(h.out, <<call>>, h.log)
      [] reply.kind = "error" ->
            Done(Unexpected(unexpected, reply.error), <<call>>, <<>>)

EmailPasswordRequiredMsg == <<"Email and password are required">>
AccessTokenRequiredMsg == <<"Access token is required">>
EmailRequiredMsg == <<"Email is required">>

\* Variant: only the email is checked before the provider is called.
authenticate_email_only(email, password, reply) ==
    IF ~Truthy(email)
    THEN Done(Raise(Exc("ValidationError", EmailPasswordRequiredMsg)), <<>>, <<>>)
    ELSE ProviderCall(
            [api |-> "initiate_auth", ClientId |-> ClientId,
             AuthFlow |-> "USER_PASSWORD_AUTH", USERNAME |-> email, PASSWORD |-> password],
            reply, Normalized(reply.response, _normalize_auth_response(reply.response)),
            "Authentication failed", "Unexpected error during authentication: ")

\* CognitoClient.authenticate
authenticate(email, password, reply) ==
    IF ~Truthy(email) \/ ~Truthy(password)
    THEN Done(Raise(Exc("ValidationError", EmailPasswordRequiredMsg)), <<>>, <<>>)
    ELSE ProviderCall(
            [api |-> "initiate_auth", ClientId |-> ClientId,
             AuthFlow |-> "USER_PASSWORD_AUTH", USERNAME |-> email, PASSWORD |-> password],
            reply, Normalized(reply.response, _normalize_auth_response(reply.response)),
            "Authentication failed", "Unexpected error during authentication: ")

\* CognitoClient.logout
logout(access_token, reply) ==
    IF ~Truthy(access_token)
    THEN Done(Raise(Exc("ValidationError", AccessTokenRequiredMsg)), <<>>, <<>>)
    ELSE ProviderCall(
            [api |-> "global_sign_out", AccessToken |-> access_token],
            reply,
            Return([success |-> BoolV(TRUE), message |-> <<"Successfully logged out">>]),
            "Logout failed", "Unexpected error during logout: ")

\* CognitoClient.get_user_info
get_user_info(access_token, reply) ==
    IF ~Truthy(access_token)
    THEN Done(Raise(Exc("ValidationError", AccessTokenRequiredMsg)), <<>>, <<>>)
    ELSE ProviderCall(
            [api |-> "get_user", AccessToken |-> access_token],
            reply, Normalized(reply.response, _normalize_user_response(reply.response)),
            "Failed to get user info", "Unexpected error getting user info: ")

\* The UserAttributes create_user sends: email, email_verified, then the
\* caller's extra attributes in their order.
CreateUserAttributes(email, attributes) ==
    <<[Name |-> "email", Value |-> email],
      [Name |-> "email_verified", Value |-> Str(<<"true">>)]>>
    \o (IF attributes.t = "dict" /\ Truthy(attributes)
        THEN [i \in 1..Len(attributes.items) |->
                [Name |-> attributes.items[i].key, Value |-> attributes.items[i].value]]
        ELSE <<>>)

\* CognitoClient.create_user
create_user(email, password, attributes, reply) ==
    IF ~Truthy(email) \/ ~Truthy(password)
    THEN Done(Raise(Exc("ValidationError", EmailPasswordRequiredMsg)), <<>>, <<>>)
    ELSE ProviderCall(
            [api |-> "admin_create_user", UserPoolId |-> UserPoolId, Username |-> email,
             UserAttributes |-> CreateUserAttributes(email, attributes),
             TemporaryPassword |-> password, MessageAction |-> "SUPPRESS"],
            reply, Normalized(reply.response, _normalize_create_user_response(reply.response)),
            "Failed to create user", "Unexpected error creating user: ")

\* CognitoClient.delete_user
delete_user(email, reply) ==
    IF ~Truthy(email)
    THEN Done(Raise(Exc("ValidationError", EmailRequiredMsg)), <<>>, <<>>)
    ELSE ProviderCall(
            [api |-> "admin_delete_user", UserPoolId |-> UserPoolId, Username |-> email],
            reply,
            Return([success |-> BoolV(TRUE),
                    message |-> <<"User ">> \o email.v \o <<" successfully deleted">>]),
            "Failed to delete user", "Unexpected error deleting user: ")

(***************************************************************************)
(* Construction: TokenValidator.__init__ and CognitoClient.__init__.       *)
(***************************************************************************)
\* TokenValidator.__init__: the fields of the new validator.
TokenValidator(user_pool_id, region) ==
    Done(Return([user_pool_id |-> user_pool_id,
                 region |-> RegionOrDefault(region),
                 jwks_url |-> JwksUrl(RegionOrDefault(region), user_pool_id),
                 jwks_cache |-> None]),
         <<>>, <<>>)

\* boto3.client('cognito-idp', region_name=self.region)
BotoCall(region) == [api |-> "boto3.client", service |-> "cognito-idp", region_name |-> region]

\* The fields CognitoClient.__init__ sets from its arguments and the
\* environment `env`, a record of the variables that are set.
ClientConfig(user_pool_id, client_id, region, env) ==
    [user_pool_id |-> Or(NoneIfOmitted(user_pool_id), Get(env, "COGNITO_USER_POOL_ID", None)),
     client_id |-> Or(NoneIfOmitted(client_id), Get(env, "COGNITO_CLIENT_ID", None)),
     region |-> Or(NoneIfOmitted(region), Get(env, "AWS_REGION", Str(<<"us-east-1">>)))]

\* CognitoClient.__init__ after the fields are set: `boto` is what
\* boto3.client does.
CheckedClient(config, boto) ==
    IF ~Truthy(config.user_pool_id)
    THEN Done(Raise(Exc("ValidationError", <<"COGNITO_USER_POOL_ID is required">>)), <<>>, <<>>)
    ELSE IF ~Truthy(config.client_id)
    THEN Done(Raise(Exc("ValidationError", <<"COGNITO_CLIENT_ID is required">>)), <<>>, <<>>)
    ELSE IF boto.kind = "raise"
    THEN Done(Raise(CognitoExc("ServiceError",
                               <<"Failed to initialize Cognito client: ">> \o boto.exc.msg,
                               None, boto.exc)),
              <<BotoCall(config.region)>>, <<>>)
    ELSE Done(Return(config), <<BotoCall(config.region)>>, <<>>)

\* Variant: the region argument is used as given, without the environment.
CognitoClient_region_as_given(user_pool_id, client_id, region, env, boto) ==
    CheckedClient([ClientConfig(user_pool_id, client_id, region, env)
                      EXCEPT !.region = NoneIfOmitted(region)], boto)

\* CognitoClient.__init__
CognitoClient(user_pool_id, client_id, region, env, boto) ==
    CheckedClient(ClientConfig(user_pool_id, client_id, region, env), boto)

(***************************************************************************)
(* Response builder: create_auth_error_response, create_success_response.  *)
(***************************************************************************)
\* The headers literal of create_auth_error_response.
ErrorHeaders ==
    ("Content-Type" :> "application/json")
    @@ ("Access-Control-Allow-Origin" :> "*")
    @@ ("Access-Control-Allow-Headers" :>
            "Content-Type,X-Amz-Date,Authorization,X-Api-Key,X-Amz-Security-Token")
    @@ ("Access-Control-Allow-Methods" :> "GET,POST,PUT,DELETE,OPTIONS")

\* The headers literal of create_success_response.
SuccessHeaders ==
    ("Content-Type" :> "application/json")
    @@ ("Access-Control-Allow-Origin" :> "*")
    @@ ("Access-Control-Allow-Headers" :>
            "Content-Type,X-Amz-Date,Authorization,X-Api-Key,X-Amz-Security-Token")
    @@ ("Access-Control-Allow-Methods" :> "GET,POST,PUT,DELETE,OPTIONS")

\* Variant: an Authorization error defaults to 403.
ErrorCategory_forbidden(error) ==
    IF IsA(error.cls, "ValidationError")
    THEN [default_status |-> IntV(400), error_type |-> "BadRequest"]
    ELSE IF IsA(error.cls, "AuthenticationError")
    THEN [default_status |-> IntV(401), error_type |-> "AuthenticationFailed"]
    ELSE IF IsA(error.cls, "AuthorizationError")
    THEN [default_status |-> IntV(403), error_type |-> "Unauthorized"]
    ELSE IF IsA(error.cls, "ServiceError")
    THEN [default_status |-> IntV(503), error_type |-> "ServiceUnavailable"]
    ELSE [default_status |-> IntV(500), error_type |-> "InternalServerError"]

\* The isinstance chain of create_auth_error_response.
ErrorCategory(error) ==
    IF IsA(error.cls, "ValidationError")
    THEN [default_status |-> IntV(400), error_type |-> "BadRequest"]
    ELSE IF IsA(error.cls, "AuthenticationError")
    THEN [default_status |-> IntV(401), error_type |-> "AuthenticationFailed"]
    ELSE IF IsA(error.cls, "AuthorizationError")
    THEN [default_status |-> IntV(401), error_type |-> "Unauthorized"]
    ELSE IF IsA(error.cls, "ServiceError")
    THEN [default_status |-> IntV(503), error_type |-> "ServiceUnavailable"]
    ELSE [default_status |-> IntV(500), error_type |-> "InternalServerError"]

\* The envelope for a category: str(error) is the error's message.
ErrorEnvelope(category, error, status_code) ==
    [statusCode |-> Or(NoneIfOmitted(status_code), category.default_status),
     headers |-> ErrorHeaders,
     body |-> [error |-> category.error_type, message |-> error.msg]]

\* create_auth_error_response
create_auth_error_response(error, status_code) ==
    Done(Return(ErrorEnvelope(ErrorCategory(error), error, status_code)), <<>>, <<>>)

\* Variant: a falsy status falls back to 200.
create_success_response_status_or_default(data, status_code) ==
    Done(Return([statusCode |-> Or(NoneIfOmitted(status_code), IntV(200)),
                 headers |-> SuccessHeaders,
                 body |-> data]), <<>>, <<>>)

\* create_success_response; status_code: int = 200
create_success_response(data, status_code) ==
    Done(Return([statusCode |-> IF status_code = Omitted THEN IntV(200) ELSE status_code,
                 headers |-> SuccessHeaders,
                 body |-> data]), <<>>, <<>>)

(***************************************************************************)
(* State machine.                                                          *)
(***************************************************************************)
\* Execution is synchronous and request-scoped: one operation runs at a time,
\* and the next request begins when the caller has taken the result.
NoOp == [name |-> "none"]
Idle == op = NoOp

\* A field of a concurrent call that has no value yet.
Unset == [t |-> "unset"]

\* A thread that is not inside validate_token.
IdleThread ==
    [pc |-> "idle", jwt |-> Unset, at_start |-> Unset, seen |-> Unset, fetch |-> Unset,
     fetches |-> 0, wrote |-> FALSE, used |-> Unset, out |-> Unset]

Threads == 1..MaxThreads

Init ==
    /\ jwks_cache = None
    /\ op = NoOp
    /\ result = Return(None)
    /\ calls = <<>>
    /\ log = <<>>
    /\ threads = [i \in Threads |-> IdleThread]

EndRequest ==
    /\ ~Idle
    /\ op' = NoOp
    /\ result' = Return(None)
    /\ calls' = <<>>
    /\ log' = <<>>
    /\ UNCHANGED <<jwks_cache, threads>>

ExtractTokenFromHeader ==
    /\ Idle
    /\ \E h \in {[header |-> None, parts |-> None]}
               \cup {[header |-> Str(Join(p)), parts |-> p] :
                        p \in HeaderParts(MaxPad, MaxSep, MaxTok)} :
          /\ op' = [name |-> "extract_token_from_header",
                    header |-> h.header, parts |-> h.parts]
          /\ result' = extract_token_from_header(h.header)
    /\ calls' = <<>>
    /\ log' = <<>>
    /\ UNCHANGED <<jwks_cache, threads>>

ExtractTokenFromEvent ==
    /\ Idle
    /\ \E e \in Events :
          /\ op' = [name |-> "extract_token_from_event", event |-> e]
          /\ result' = extract_token_from_event(e)
    /\ calls' = <<>>
    /\ log' = <<>>
    /\ UNCHANGED <<jwks_cache, threads>>

NextExtract == ExtractTokenFromHeader \/ ExtractTokenFromEvent \/ EndRequest

SpecExtract == Init /\ [][NextExtract]_vars

(***************************************************************************)
(* The directory client's callers and its provider.                        *)
(***************************************************************************)
Emails == {None, Str(<<>>), Str(<<"test@example.com">>)}
Passwords == {None, Str(<<>>), Str(<<"password123">>)}
AccessTokens == {None, Str(<<>>), Str(<<"access_token_123">>)}
ExtraAttributes == {None, DictV(<<>>), DictV(<<Entry("given_name", Str(<<"Taro">>))>>)}

ProviderCodes ==
    AuthenticationCodes \cup AuthorizationCodes \cup ValidationCodes \cup ServiceCodes
    \cup {"LimitExceededException", "CodeMismatchException"}
ProviderMessages == {"User already exists", "Rate exceeded"}

\* What a provider call can do: return a response, raise ClientError (with a
\* complete error, or one lacking fields), or raise something else.
ClientErrorReplies ==
    {[kind |-> "client_error", error |-> ClientError([Error |-> [Code |-> c, Message |-> m]])] :
        c \in ProviderCodes, m \in ProviderMessages}
    \cup {[kind |-> "client_error", error |-> ClientError(r)] :
            r \in {[Error |-> [Message |-> "Rate exceeded"]],
                   [Error |-> [Code |-> "UsernameExistsException"]],
                   [ResponseMetadata |-> None]}}
OtherErrorReplies ==
    {[kind |-> "error", error |-> Exc(c, <<"Could not connect to the endpoint URL">>)] :
        c \in {"EndpointConnectionError", "Exception"}}
Replies(responses) ==
    {[kind |-> "ok", response |-> r] : r \in responses}
    \cup ClientErrorReplies \cup OtherErrorReplies

AuthResponses ==
    {[AuthenticationResult |->
        [AccessToken |-> Str(<<"access_token_123">>), RefreshToken |-> Str(<<"refresh_token_123">>),
         IdToken |-> Str(<<"id_token_123">>), TokenType |-> Str(<<"Bearer">>),
         ExpiresIn |-> IntV(7200)]],
     [AuthenticationResult |-> [AccessToken |-> Str(<<"access_token_123">>)]],
     [ChallengeName |-> Str(<<"NEW_PASSWORD_REQUIRED">>)],
     None}
UserResponses ==
    {[Username |-> Str(<<"testuser">>),
      UserAttributes |-> <<[Name |-> "sub", Value |-> Str(<<"user123">>)],
                           [Name |-> "email", Value |-> Str(<<"test@example.com">>)],
                           [Name |-> "email_verified", Value |-> Str(<<"true">>)]>>],
     [Username |-> Str(<<"testuser">>),
      UserAttributes |-> <<[Name |-> "email_verified", Value |-> Str(<<"false">>)],
                           [Name |-> "given_name", Value |-> Str(<<"Taro">>)]>>],
     [Username |-> Str(<<"testuser">>)],
     None}
CreateResponses ==
    {[User |-> [Username |-> Str(<<"test@example.com">>),
                UserStatus |-> Str(<<"FORCE_CHANGE_PASSWORD">>),
                UserCreateDate |-> Str(<<"2024-01-01T00:00:00Z">>)]],
     [ResponseMetadata |-> None],
     None}
AckResponses == {[ResponseMetadata |-> None], None}

\* The action of a directory operation: the operation's outcome becomes the
\* state.
Finish(request, done) ==
    \E d \in {done} :
        /\ op' = request
        /\ result' = d.out
        /\ calls' = d.calls
        /\ log' = d.log
        /\ UNCHANGED <<jwks_cache, threads>>

Authenticate ==
    /\ Idle
    /\ \E email \in Emails, password \in Passwords, reply \in Replies(AuthResponses) :
          Finish([name |-> "authenticate", email |-> email, password |-> password,
                  reply |-> reply],
                 authenticate(email, password, reply))

Logout ==
    /\ Idle
    /\ \E access_token \in AccessTokens, reply \in Replies(AckResponses) :
          Finish([name |-> "logout", access_token |-> access_token, reply |-> reply],
                 logout(access_token, reply))

GetUserInfo ==
    /\ Idle
    /\ \E access_token \in AccessTokens, reply \in Replies(UserResponses) :
          Finish([name |-> "get_user_info", access_token |-> access_token, reply |-> reply],
                 get_user_info(access_token, reply))

CreateUser ==
    /\ Idle
    /\ \E email \in Emails, password \in Passwords, attributes \in ExtraAttributes,
          reply \in Replies(CreateResponses) :
          Finish([name |-> "create_user", email |-> email, password |-> password,
                  attributes |-> attributes, reply |-> reply],
                 create_user(email, password, attributes, reply))

DeleteUser ==
    /\ Idle
    /\ \E email \in Emails, reply \in Replies(AckResponses) :
          Finish([name |-> "delete_user", email |-> email, reply |-> reply],
                 delete_user(email, reply))

NextDirectory ==
    Authenticate \/ Logout \/ GetUserInfo \/ CreateUser \/ DeleteUser \/ EndRequest

SpecDirectory == Init /\ [][NextDirectory]_vars

(***************************************************************************)
(* The token validator's callers, tokens, key sets and clock.              *)
(***************************************************************************)
\* The validator that lives across requests.
ValidatorRegion == Str(<<"ap-northeast-1">>)
ValidatorPoolId == Str(<<"ap-northeast-1_test123">>)
ValidatorUrl == JwksUrl(ValidatorRegion, ValidatorPoolId)

Times == 1..MaxTime

\* Claims of a payload: the fields in `present`, with the given token_use,
\* scope and exp.
MakeClaims(present, token_use, scope, exp) ==
    [k \in present |->
        CASE k = "sub" -> Str(<<"user123">>)
          [] k = "username" -> Str(<<"testuser">>)
          [] k = "client_id" -> Str(<<"test_client">>)
          [] k = "token_use" -> token_use
          [] k = "scope" -> scope
          [] k = "auth_time" -> IntV(1)
          [] k = "iat" -> IntV(1)
          [] k = "exp" -> exp]

ClaimNames == {"sub", "username", "client_id", "token_use", "scope", "auth_time",
               "iat", "exp"}

\* Payloads that differ in token type and expiry.
TypedClaims ==
    {MakeClaims(ClaimNames \ {"exp"}, Str(<<u>>), Str(<<"a", " ", "b">>), None) :
        u \in {"access", "id", "refresh"}}
    \cup {MakeClaims(ClaimNames \ {"exp", "token_use"}, None, Str(<<"a", " ", "b">>), None)}
    \cup {MakeClaims(ClaimNames, Str(<<u>>), Str(<<"a", " ", "b">>), IntV(e)) :
            u \in {"access", "id", "refresh"}, e \in Times}
    \cup {MakeClaims(ClaimNames \ {"token_use"}, None, Str(<<"a", " ", "b">>), IntV(e)) :
            e \in Times}

\* Payloads of access tokens that differ in which claims they carry and in
\* the scope string; their expiry, when present, lies after every clock value.
ScopeChars == {"a", "b", " "}
ProjectedClaims ==
    {MakeClaims(present \cup {"token_use"}, Str(<<"access">>), Str(sc), IntV(MaxTime + 1)) :
        present \in SUBSET (ClaimNames \ {"token_use"}),
        sc \in SeqsUpTo(ScopeChars, MaxScopeLen)}

Jwt(header_ok, kid, alg, signer, payload_ok, claims) ==
    [header_ok |-> header_ok, kid |-> kid, alg |-> alg, signer |-> signer,
     payload_ok |-> payload_ok, claims |-> claims]

\* What the JWT library reads in a string that is no token at all.
MalformedJwt == Jwt(FALSE, None, "RS256", "forged", FALSE, [x \in {} |-> None])

AccessClaims ==
    MakeClaims(ClaimNames \ {"exp"}, Str(<<"access">>), Str(<<"a", " ", "b">>), None)

\* Tokens that differ in header, key id, algorithm, signature and payload.
Jwts ==
    {MalformedJwt}
    \cup {Jwt(TRUE, kid, "RS256", "m1", TRUE, AccessClaims) : kid \in {None, Str(<<>>)}}
    \cup {Jwt(TRUE, Str(<<kid>>), "RS256", signer, TRUE, c) :
            kid \in {"k1", "k9"}, signer \in {"m1", "forged"}, c \in TypedClaims}
    \cup {Jwt(TRUE, Str(<<"k1">>), "HS256", "m1", TRUE, c) : c \in TypedClaims}
    \cup {Jwt(TRUE, Str(<<"k1">>), "RS256", "m1", FALSE, AccessClaims)}

ProjectedJwts == {Jwt(TRUE, Str(<<"k1">>), "RS256", "m1", TRUE, c) : c \in ProjectedClaims}

\* Key set documents the endpoint may serve: any JSON value.
KeySet(keys) == DictV(<<Entry("keys", ListV(keys))>>)
GoodKeySet == KeySet(<<Jwk(Str(<<"k1">>), "m1"), Jwk(Str(<<"k2">>), "m2")>>)
KeySets ==
    {GoodKeySet,
     KeySet(<<Jwk(Str(<<"k2">>), "m2")>>),
     KeySet(<<Jwk(Str(<<"k1">>), "bad")>>),
     KeySet(<<>>),
     DictV(<<>>),
     ListV(<<Jwk(Str(<<"k1">>), "m1")>>),
     None}

\* What the key-set fetch does: the document is returned, requests raises,
\* or response.json() raises (a RequestException in some versions of
\* requests, a plain ValueError in others).
Fetches ==
    {Return(d) : d \in KeySets}
    \cup {Raise(Exc(c, <<"fetch failed: ", c>>)) :
            c \in {"ConnectionError", "Timeout", "HTTPError",
                   "RequestsJSONDecodeError", "ValueError"}}

TokenString == Str(<<"x">>)

\* The token argument, with what the JWT library reads in it.
TokenInputs ==
    {[token |-> t, jwt |-> MalformedJwt] : t \in {None, Str(<<>>)}}
    \cup {[token |-> TokenString, jwt |-> j] : j \in Jwts}

PoolIds == {None, Str(<<>>), ValidatorPoolId}
Regions == {Omitted, ValidatorRegion}

\* Events of require_authentication: at most one header.
AuthEvents ==
    {Event(FALSE, None), Event(TRUE, None)}
    \cup {Event(TRUE, DictV(m)) : m \in MappingsUpTo(1)}

(***************************************************************************)
(* The token validator's operations.                                       *)
(***************************************************************************)
ValidateToken ==
    /\ Idle
    /\ \E t \in TokenInputs, fetch \in Fetches, now \in Times :
          \E v \in {validate_token(jwks_cache, ValidatorUrl, t.token, t.jwt, fetch, now)} :
              /\ op' = [name |-> "validate_token", token |-> t.token, jwt |-> t.jwt,
                        fetch |-> fetch, now |-> now, cache |-> jwks_cache]
              /\ result' = v.out
              /\ jwks_cache' = v.cache
              /\ calls' = v.calls
              /\ log' = v.log
              /\ UNCHANGED threads

Next == ValidateToken \/ EndRequest

Spec == Init /\ [][Next]_vars

(***************************************************************************)
(* The operations that construct their own validator.                      *)
(***************************************************************************)
SomeFetches ==
    {Return(GoodKeySet), Return(None), Raise(Exc("Timeout", <<"fetch failed: ", "Timeout">>))}

\* Every kind of token with every argument; and the access tokens that
\* differ in claims and scope, validated against the good key set.
UserInfoInputs ==
    [t : TokenInputs, user_pool_id : PoolIds, region : Regions,
     fetch : SomeFetches, now : Times]
    \cup [t : {[token |-> TokenString, jwt |-> j] : j \in ProjectedJwts},
          user_pool_id : {ValidatorPoolId}, region : Regions,
          fetch : {Return(GoodKeySet)}, now : {1}]

ValidateAndExtractUserInfo ==
    /\ Idle
    /\ \E i \in UserInfoInputs :
          Finish([name |-> "validate_and_extract_user_info", token |-> i.t.token,
                  jwt |-> i.t.jwt, user_pool_id |-> i.user_pool_id, region |-> i.region,
                  fetch |-> i.fetch, now |-> i.now],
                 validate_and_extract_user_info(i.t.token, i.user_pool_id, i.region,
                                                i.t.jwt, i.fetch, i.now))

\* What the JWT library reads in the token an event carries.
EventJwts ==
    {Jwt(TRUE, Str(<<"k1">>), "RS256", "m1", TRUE, c) :
        c \in {AccessClaims,
               MakeClaims(ClaimNames \ {"exp"}, Str(<<"id">>), Str(<<"a", " ", "b">>), None),
               MakeClaims(ClaimNames, Str(<<"access">>), Str(<<"a", " ", "b">>), IntV(1))}}

RequireAuthentication ==
    /\ Idle
    /\ \E event \in AuthEvents, user_pool_id \in PoolIds, region \in Regions,
          jwt \in EventJwts, fetch \in SomeFetches, now \in Times :
          Finish([name |-> "require_authentication", event |-> event, jwt |-> jwt,
                  user_pool_id |-> user_pool_id, region |-> region,
                  fetch |-> fetch, now |-> now],
                 require_authentication(event, user_pool_id, region, jwt, fetch, now))

NextAuth == ValidateAndExtractUserInfo \/ RequireAuthentication \/ EndRequest

SpecAuth == Init /\ [][NextAuth]_vars

\* The inbound path next to a validator that lives across requests.
NextPerCall ==
    ValidateToken \/ ValidateAndExtractUserInfo \/ RequireAuthentication \/ EndRequest

SpecPerCall == Init /\ [][NextPerCall]_vars

(***************************************************************************)
(* The response builder's callers.                                         *)
(***************************************************************************)
\* The status_code argument: left out, None, or an integer.
StatusCodes ==
    {Omitted, None}
    \cup {IntV(n) : n \in {-1, 0, 200, 201, 400, 401, 403, 422, 500, 503}}

\* Errors handed to create_auth_error_response: the four categories, their
\* base class, and exceptions of other kinds.
ResponseErrors ==
    {Exc(c, <<m>>) :
        c \in {"ValidationError", "AuthenticationError", "AuthorizationError",
               "ServiceError", "CognitoError", "Exception", "KeyError",
               "ExpiredSignatureError", "RequestException"},
        m \in {"missing parameter", ""}}

\* Data handed to create_success_response.
SuccessData ==
    {[user_id |-> Str(<<"u1">>)],
     [message |-> Str(<<"created">>), user_id |-> Str(<<"user123">>)],
     [x \in {} |-> None],
     [success |-> BoolV(TRUE), message |-> <<"Successfully logged out">>]}

CreateAuthErrorResponse ==
    /\ Idle
    /\ \E error \in ResponseErrors, status_code \in StatusCodes :
          Finish([name |-> "create_auth_error_response", error |-> error,
                  status_code |-> status_code, after |-> NoOp],
                 create_auth_error_response(error, status_code))

\* The caller of an operation that raised hands the error to
\* create_auth_error_response.
RespondToFailure ==
    /\ ~Idle
    /\ op.name \in {"authenticate", "logout", "get_user_info", "create_user", "delete_user",
                   "validate_token"}
    /\ result.kind = "raise"
    /\ \E status_code \in StatusCodes :
          Finish([name |-> "create_auth_error_response", error |-> result.exc,
                  status_code |-> status_code, after |-> op],
                 create_auth_error_response(result.exc, status_code))

CreateSuccessResponse ==
    /\ Idle
    /\ \E data \in SuccessData, status_code \in StatusCodes :
          Finish([name |-> "create_success_response", data |-> data,
                  status_code |-> status_code],
                 create_success_response(data, status_code))

NextResponse ==
    \/ CreateAuthErrorResponse
    \/ CreateSuccessResponse
    \/ CreateUser
    \/ RespondToFailure
    \/ EndRequest

SpecResponse == Init /\ [][NextResponse]_vars

\* Failures of the validator and of the directory client, and the responses
\* built from them.
NextFailure == ValidateToken \/ Authenticate \/ RespondToFailure \/ EndRequest

SpecFailure == Init /\ [][NextFailure]_vars

(***************************************************************************)
(* Construction, and the operations that take a region.                    *)
(***************************************************************************)
\* The environment: which of the three variables are set, and to what.
Environments ==
    {[x \in {} |-> None]}
    \cup [COGNITO_USER_POOL_ID : {Str(<<"pool-env">>)}]
    \cup [COGNITO_USER_POOL_ID : {Str(<<"pool-env">>)}, COGNITO_CLIENT_ID : {Str(<<"client-env">>)}]
    \cup [COGNITO_USER_POOL_ID : {Str(<<"pool-env">>)}, COGNITO_CLIENT_ID : {Str(<<"client-env">>)},
          AWS_REGION : {Str(<<>>), Str(<<"eu-west-1">>)}]
    \cup [AWS_REGION : {Str(<<"eu-west-1">>)}]

\* Arguments of CognitoClient: left out, None, empty, or given.
ClientArguments ==
    [user_pool_id : {Omitted, UserPoolId}, client_id : {Omitted, ClientId},
     region : {Omitted, None, Str(<<>>), ValidatorRegion}]

BotoReplies == {Return(None), Raise(Exc("NoRegionError", <<"You must specify a region.">>))}

ConstructValidator ==
    /\ Idle
    /\ \E user_pool_id \in PoolIds \ {None}, region \in Regions :
          Finish([name |-> "TokenValidator", user_pool_id |-> user_pool_id,
                  region |-> region],
                 TokenValidator(user_pool_id, region))

ConstructClient ==
    /\ Idle
    /\ \E a \in ClientArguments, env \in Environments, boto \in BotoReplies :
          Finish([name |-> "CognitoClient", user_pool_id |-> a.user_pool_id,
                  client_id |-> a.client_id, region |-> a.region, env |-> env,
                  boto |-> boto],
                 CognitoClient(a.user_pool_id, a.client_id, a.region, env, boto))

NextConfig ==
    \/ ConstructValidator
    \/ ConstructClient
    \/ ValidateAndExtractUserInfo
    \/ RequireAuthentication
    \/ EndRequest

SpecConfig == Init /\ [][NextConfig]_vars

(***************************************************************************)
(* validate_token calls that run concurrently on the long-lived validator. *)
(* A call is followed from the point where it has read the key id of its   *)
(* token; what it shares with the other calls is the cache, which it       *)
(* tests, may fill, and reads again for the lookup.                        *)
(***************************************************************************)
\* The token of the concurrent calls: an access token signed with the first
\* key.
RaceJwts == {Jwt(TRUE, Str(<<"k1">>), "RS256", "m1", TRUE, AccessClaims)}

\* What a fetch may do while the calls run: serve the key set, the key set
\* after a rotation, an empty document, or fail.
RaceFetches ==
    {Return(GoodKeySet), Return(KeySet(<<Jwk(Str(<<"k2">>), "m2")>>)), Return(DictV(<<>>)),
     Raise(Exc("Timeout", <<"fetch failed: ", "Timeout">>))}

\* Variant: the key set is fetched whatever the cache holds.
AfterCheck_always_fetch(cache) == "fetch"

\* `if not self._jwks_cache`: where the call goes after the test.
AfterCheck(cache) == IF Truthy(cache) THEN "lookup" ELSE "fetch"

\* How validate_token ends once _get_public_key has ended as `k`; the
\* clock reads 1, before any expiry.
RaceOutcome(k, jwt) == TryExcept(AfterKey(k, jwt, 1)).out

\* validate_token is called, with a token that has a key id.
Begin(i) ==
    /\ threads[i].pc = "idle"
    /\ \E jwt \in RaceJwts :
          threads' = [threads EXCEPT ![i] = [IdleThread EXCEPT !.pc = "check", !.jwt = jwt,
                                                               !.at_start = jwks_cache]]
    /\ UNCHANGED <<jwks_cache, op, result, calls, log>>

\* The call tests the cache.
Check(i) ==
    /\ threads[i].pc = "check"
    /\ threads' = [threads EXCEPT ![i].pc = AfterCheck(jwks_cache), ![i].seen = jwks_cache]
    /\ UNCHANGED <<jwks_cache, op, result, calls, log>>

\* The call fetches the key set: the document is in its hands, or the fetch
\* failed and the call ends.
Fetch(i) ==
    /\ threads[i].pc = "fetch"
    /\ \E fetch \in RaceFetches :
          threads' = [threads EXCEPT
                        ![i].fetch = fetch,
                        ![i].fetches = @ + 1,
                        ![i].pc = IF fetch.kind = "raise" THEN "done" ELSE "write",
                        ![i].out = IF fetch.kind = "raise"
                                   THEN RaceOutcome(FetchRaised(jwks_cache, ValidatorUrl,
                                                                fetch.exc), threads[i].jwt)
                                   ELSE Unset]
    /\ UNCHANGED <<jwks_cache, op, result, calls, log>>

\* The call stores the document it fetched.
Write(i) ==
    /\ threads[i].pc = "write"
    /\ jwks_cache' = threads[i].fetch.value
    /\ threads' = [threads EXCEPT ![i].pc = "lookup", ![i].wrote = TRUE]
    /\ UNCHANGED <<op, result, calls, log>>

\* The call reads the cache, looks its key up in what it read, and ends.
Lookup(i) ==
    /\ threads[i].pc = "lookup"
    /\ threads' = [threads EXCEPT
                     ![i].used = jwks_cache,
                     ![i].out = RaceOutcome(LookupKey(jwks_cache, threads[i].jwt.kid, <<>>),
                                            threads[i].jwt),
                     ![i].pc = "done"]
    /\ UNCHANGED <<jwks_cache, op, result, calls, log>>

NextRace == \E i \in Threads : Begin(i) \/ Check(i) \/ Fetch(i) \/ Write(i) \/ Lookup(i)

SpecRace == Init /\ [][NextRace]_vars

(***************************************************************************)
(* Properties of the token validator (Spec).                               *)
(***************************************************************************)
TokenPresented == op.name = "validate_token" /\ Truthy(op.token)

\* The key set the call looks the key up in: the cache when it holds
\* something, else what the fetch returned.
UsedKeySet ==
    IF Truthy(op.cache) THEN op.cache
    ELSE IF op.fetch.kind = "return" THEN op.fetch.value
    ELSE None

UsedKeys ==
    IF UsedKeySet.t = "dict" /\ UsedKeySet.items # <<>>
    THEN UsedKeySet.items[1].value.v
    ELSE <<>>

ResolvedPositions == {i \in 1..Len(UsedKeys) : UsedKeys[i].kid = op.jwt.kid}

\* The token's key id is found in the key set and its key converts.
KeyResolves ==
    /\ TokenPresented
    /\ op.jwt.header_ok
    /\ Truthy(op.jwt.kid)
    /\ ResolvedPositions # {}
    /\ \A i \in ResolvedPositions : UsedKeys[i].material # "bad"

\* The token is an RS256 token signed with the resolved key, with a payload.
SignatureVerifies ==
    /\ KeyResolves
    /\ op.jwt.alg = "RS256"
    /\ \A i \in ResolvedPositions : UsedKeys[i].material = op.jwt.signer
    /\ op.jwt.payload_ok

ExpiryPassed == "exp" \in DOMAIN op.jwt.claims /\ op.jwt.claims.exp.v <= op.now

\* C1: validate_token with an empty or missing token fails with the
\* Validation error 'Token is required', having parsed no header and fetched
\* no key set, and leaves the cache as it was.
C1_EmptyTokenIsValidation ==
    (op.name = "validate_token" /\ ~Truthy(op.token)) =>
        /\ result = Raise(Exc("ValidationError", TokenRequiredMsg))
        /\ calls = <<>>
        /\ jwks_cache = op.cache

C1_Witness ==
    /\ op.name = "validate_token"
    /\ op.token = None
    /\ op.cache = None
    /\ op.fetch = Return(GoodKeySet)
    /\ result = Raise(Exc("ValidationError", TokenRequiredMsg))
    /\ jwks_cache = None

\* C2: a token whose key resolves and whose verification fails on the
\* expiry, whatever its token_use, fails with the Authorization error 'token
\* expired'; that message differs from the 'invalid token' message, which
\* every other Authorization failure of validate_token carries.
C2_ExpiredHasOwnMessage ==
    /\ (SignatureVerifies /\ ExpiryPassed) =>
          result = Raise(Exc("AuthorizationError", TokenExpiredMsg))
    /\ TokenExpiredMsg # TokenInvalidMsg
    /\ (/\ op.name = "validate_token"
        /\ Raised(result, "AuthorizationError")
        /\ ~(SignatureVerifies /\ ExpiryPassed))
       => result.exc.msg = TokenInvalidMsg

C2_Witness ==
    /\ SignatureVerifies
    /\ ExpiryPassed
    /\ "token_use" \in DOMAIN op.jwt.claims
    /\ op.jwt.claims.token_use = Str(<<"id">>)
    /\ result = Raise(Exc("AuthorizationError", TokenExpiredMsg))

\* C3: validate_token returns only for a token whose token_use is 'access',
\* and then returns the decoded claims unchanged; a token that verifies and
\* is not expired but whose token_use is anything else, or absent, fails with
\* the Authorization error 'invalid token'.
C3_OnlyAccessTokensPass ==
    /\ (op.name = "validate_token" /\ result.kind = "return") =>
          /\ "token_use" \in DOMAIN op.jwt.claims
          /\ op.jwt.claims.token_use = Str(<<"access">>)
          /\ result.value = op.jwt.claims
    /\ (/\ SignatureVerifies
        /\ ~ExpiryPassed
        /\ \/ "token_use" \notin DOMAIN op.jwt.claims
           \/ op.jwt.claims.token_use # Str(<<"access">>))
       => result = Raise(Exc("AuthorizationError", TokenInvalidMsg))

C3_Witness ==
    /\ SignatureVerifies
    /\ ~ExpiryPassed
    /\ "token_use" \in DOMAIN op.jwt.claims
    /\ op.jwt.claims.token_use = Str(<<"id">>)
    /\ result = Raise(Exc("AuthorizationError", TokenInvalidMsg))

\* The fetches the call issued.
FetchesMade == {i \in 1..Len(calls) : calls[i].api = "requests.get"}

\* The call reached the key lookup: the token has a header with a key id.
LookupReached ==
    /\ TokenPresented
    /\ op.jwt.header_ok
    /\ Truthy(op.jwt.kid)

\* C14 as stated: whatever document a fetch returned, it is the cache from
\* then on, and a call that starts with a fetched document in the cache
\* issues no fetch and leaves the cache as it is.
C14_AnyDocumentIsFetchedOnce ==
    op.name = "validate_token" =>
        /\ (FetchesMade # {} /\ op.fetch.kind = "return") =>
              jwks_cache = op.fetch.value
        /\ op.cache # None =>
              FetchesMade = {} /\ jwks_cache = op.cache

\* C14: the document a fetch returns becomes the cache; once the cache
\* holds a non-empty document (one that is truthy), every later call, for
\* any key id, issues no fetch and leaves the cache as it is.  An empty
\* document (an empty object or list, null) is fetched again.
C14_NonEmptyDocumentIsFetchedOnce ==
    op.name = "validate_token" =>
        /\ (FetchesMade # {} /\ op.fetch.kind = "return") =>
              jwks_cache = op.fetch.value
        /\ Truthy(op.cache) =>
              FetchesMade = {} /\ jwks_cache = op.cache
        /\ (LookupReached /\ ~Truthy(op.cache)) => Cardinality(FetchesMade) = 1

C14_Witness ==
    /\ LookupReached
    /\ op.cache = KeySet(<<Jwk(Str(<<"k2">>), "m2")>>)
    /\ op.jwt.kid = Str(<<"k1">>)
    /\ op.fetch = Return(GoodKeySet)
    /\ FetchesMade = {}
    /\ jwks_cache = op.cache

\* C15: when the fetch of the key set raises a network error, a timeout or
\* an HTTP status error, validate_token raises the Service error 'JWKS fetch
\* failed' with the cause's message, has made exactly one fetch, and leaves
\* the cache empty; a later call that reaches the lookup fetches again.
C15_FetchFailureIsServiceError ==
    (/\ LookupReached
     /\ ~Truthy(op.cache)
     /\ op.fetch.kind = "raise"
     /\ op.fetch.exc.cls \in {"ConnectionError", "Timeout", "HTTPError"})
    => /\ result = Raise(Exc("ServiceError", <<JwksFailedPrefix>> \o op.fetch.exc.msg))
       /\ Cardinality(FetchesMade) = 1
       /\ jwks_cache = op.cache
       /\ ~Truthy(jwks_cache)

C15_Witness ==
    /\ LookupReached
    /\ op.cache = None
    /\ op.fetch = Raise(Exc("Timeout", <<"fetch failed: ", "Timeout">>))
    /\ result = Raise(Exc("ServiceError", <<JwksFailedPrefix, "fetch failed: ", "Timeout">>))
    /\ jwks_cache = None

\* The key id of the token is in none of the keys of the key set used, which
\* is a JSON object.
UnknownKeyId ==
    /\ LookupReached
    /\ UsedKeySet.t = "dict"
    /\ ResolvedPositions = {}

\* C16: a token without key id and a token whose key id is not in the key
\* set both fail with the Authorization error 'invalid token'; a missing key
\* id issues no fetch; an unknown key id looked up in a cached key set issues
\* no fetch and leaves the cache as it is.
C16_MissingAndUnknownKeyAlike ==
    /\ (TokenPresented /\ op.jwt.header_ok /\ ~Truthy(op.jwt.kid)) =>
          /\ result = Raise(Exc("AuthorizationError", TokenInvalidMsg))
          /\ FetchesMade = {}
          /\ jwks_cache = op.cache
    /\ UnknownKeyId =>
          result = Raise(Exc("AuthorizationError", TokenInvalidMsg))
    /\ (UnknownKeyId /\ Truthy(op.cache)) =>
          FetchesMade = {} /\ jwks_cache = op.cache

C16_Witness ==
    /\ UnknownKeyId
    /\ op.cache = GoodKeySet
    /\ op.jwt.kid = Str(<<"k9">>)
    /\ op.fetch = Return(KeySet(<<Jwk(Str(<<"k1">>), "bad")>>))
    /\ result = Raise(Exc("AuthorizationError", TokenInvalidMsg))
    /\ jwks_cache = GoodKeySet

\* How the key resolution of the call ended.
KeyOutcome == _get_public_key(op.cache, ValidatorUrl, op.jwt.kid, op.fetch).out

\* C20: a Service or Authorization error raised by the key resolution is
\* what validate_token raises, unchanged; a failure of the key resolution
\* that is none of the four categories and no token failure of the JWT
\* library is logged at error level and raised as the Service error 'error
\* during token validation' followed by the failure's message.
C20_ErrorsNeitherReclassifiedNorLost ==
    LookupReached =>
        /\ (KeyOutcome.kind = "raise"
            /\ KeyOutcome.exc.cls \in {"ServiceError", "AuthorizationError"}) =>
              result = KeyOutcome
        /\ (KeyOutcome.kind = "raise"
            /\ KeyOutcome.exc.cls \notin {"ValidationError", "AuthenticationError",
                                          "AuthorizationError", "ServiceError"}
            /\ ~IsA(KeyOutcome.exc.cls, "InvalidTokenError")) =>
              /\ result = Raise(Exc("ServiceError",
                                    <<TokenValidationErrorPrefix>> \o KeyOutcome.exc.msg))
              /\ log = <<ErrorLog(<<"Token validation error: ">> \o KeyOutcome.exc.msg)>>

C20_Witness ==
    /\ LookupReached
    /\ op.cache = None
    /\ op.fetch = Return(KeySet(<<Jwk(Str(<<"k1">>), "bad")>>))
    /\ op.jwt.kid = Str(<<"k1">>)
    /\ KeyOutcome = Raise(Exc("InvalidKeyError", <<"Not a public or private key">>))
    /\ result = Raise(Exc("ServiceError",
                          <<TokenValidationErrorPrefix, "Not a public or private key">>))
    /\ log = <<ErrorLog(<<"Token validation error: ", "Not a public or private key">>)>>

(***************************************************************************)
(* Properties of the user-info projection (SpecAuth).                      *)
(***************************************************************************)
\* The maximal runs of non-whitespace characters of s, in order: the k-th
\* word starts at the k-th position that begins a run.
WordStarts(s) == {i \in 1..Len(s) : ~IsSpace(s[i]) /\ (i = 1 \/ IsSpace(s[i - 1]))}
WordEnd(s, i) ==
    CHOOSE j \in i..Len(s) :
        /\ \A k \in i..j : ~IsSpace(s[k])
        /\ j = Len(s) \/ IsSpace(s[j + 1])
WordsOf(s) ==
    [k \in 1..Cardinality(WordStarts(s)) |->
        LET i == CHOOSE i \in WordStarts(s) :
                    Cardinality({j \in WordStarts(s) : j < i}) = k - 1
        IN  Str(SubSeq(s, i, WordEnd(s, i)))]

ClaimOrNone(claims, name) == IF name \in DOMAIN claims THEN claims[name] ELSE None

\* C10: the record validate_and_extract_user_info returns is a projection of
\* the claims: scope is the scope claim's words in order, and the empty
\* sequence when the claim is absent or empty; sub, username, client_id,
\* token_use, auth_time, iat and exp are the claims unchanged, None when
\* missing.
C10_UserInfoIsProjection ==
    (op.name = "validate_and_extract_user_info" /\ result.kind = "return") =>
        LET claims == op.jwt.claims
            info == result.value
        IN  /\ info.scope.t = "list"
            /\ "scope" \in DOMAIN claims => info.scope = ListV(WordsOf(claims.scope.v))
            /\ ("scope" \notin DOMAIN claims \/ claims.scope = Str(<<>>)) =>
                  info.scope = ListV(<<>>)
            /\ info.user_id = ClaimOrNone(claims, "sub")
            /\ info.username = ClaimOrNone(claims, "username")
            /\ info.client_id = ClaimOrNone(claims, "client_id")
            /\ info.token_use = ClaimOrNone(claims, "token_use")
            /\ info.auth_time = ClaimOrNone(claims, "auth_time")
            /\ info.iat = ClaimOrNone(claims, "iat")
            /\ info.exp = ClaimOrNone(claims, "exp")

C10_Witness ==
    /\ op.name = "validate_and_extract_user_info"
    /\ result.kind = "return"
    /\ "scope" \in DOMAIN op.jwt.claims
    /\ op.jwt.claims.scope = Str(<<"b", " ", "a">>)
    /\ result.value.scope = ListV(<<Str(<<"b">>), Str(<<"a">>)>>)
    /\ "sub" \notin DOMAIN op.jwt.claims
    /\ result.value.user_id = None
    /\ result.value.username = Str(<<"testuser">>)

\* C10, the absent claim: a scope claim that is absent never makes the call
\* fail.
C10_WitnessNoScope ==
    /\ op.name = "validate_and_extract_user_info"
    /\ result.kind = "return"
    /\ "scope" \notin DOMAIN op.jwt.claims
    /\ result.value.scope = ListV(<<>>)

(***************************************************************************)
(* Properties of the extractor (SpecExtract).                              *)
(***************************************************************************)
NoSpace(s) == \A i \in 1..Len(s) : ~IsSpace(s[i])

HasBearerShape(s) ==
    LET t == Strip(s)
    IN  Len(t) >= 8 /\ Lower(SubSeq(t, 1, 6)) = BearerWord /\ IsSpace(t[7])

\* C7: an empty or missing header fails with the Validation error
\* 'authentication required'; a non-empty header that lacks the shape
\* Bearer <non-empty token> fails with the Authorization error 'invalid
\* authentication header'; no non-empty header fails with a Validation error.
C7_MissingVersusMalformed ==
    op.name = "extract_token_from_header" =>
        /\ ~Truthy(op.header) =>
              result = Raise(Exc("ValidationError", AuthRequiredMsg))
        /\ (Truthy(op.header) /\ ~HasBearerShape(op.header.v)) =>
              result = Raise(Exc("AuthorizationError", HeaderInvalidMsg))
        /\ Truthy(op.header) => ~Raised(result, "ValidationError")

C7_Witness ==
    /\ op.name = "extract_token_from_header"
    /\ op.header = Str(<<"B","a","s","i","c"," ","x">>)
    /\ result = Raise(Exc("AuthorizationError", HeaderInvalidMsg))

\* The positions of an event's header mapping whose key is 'authorization'
\* in some letter case.
AuthKeyPositions(event) ==
    IF event.has_headers /\ event.headers.t = "dict"
    THEN {i \in 1..Len(event.headers.items) :
            Lower(event.headers.items[i].key) = AuthorizationKey}
    ELSE {}

\* C8: when exactly one key of the event's header mapping is 'authorization'
\* in some letter case, the outcome is that of extract_token_from_header on
\* that header's value, whatever the key's case and the other headers.
C8_EventKeyCaseInsensitive ==
    (op.name = "extract_token_from_event" /\ Cardinality(AuthKeyPositions(op.event)) = 1)
    => LET i == CHOOSE i \in AuthKeyPositions(op.event) : TRUE
       IN  result = extract_token_from_header(op.event.headers.items[i].value)

C8_Witness ==
    /\ op.name = "extract_token_from_event"
    /\ AuthKeyPositions(op.event) = {2}
    /\ op.event.headers.items[2].key # AuthorizationKey
    /\ op.event.headers.items[2].key # <<"A","u","t","h","o","r","i","z","a","t","i","o","n">>
    /\ result = Return(Str(<<"x">>))

\* C9: an event in which no authorization header can be found (no headers
\* field, a headers field that holds no mapping, an empty mapping, or no key
\* equal to 'authorization') fails with the Validation error
\* 'authentication required'.
C9_NoAuthHeaderIsValidation ==
    (op.name = "extract_token_from_event" /\ AuthKeyPositions(op.event) = {})
    => result = Raise(Exc("ValidationError", AuthRequiredMsg))

(***************************************************************************)
(* Properties of the directory client (SpecDirectory).                     *)
(***************************************************************************)
DirectoryOps == {"authenticate", "logout", "get_user_info", "create_user", "delete_user"}

\* The provider raised a ClientError that carries a code and a message.
ProviderCodeGiven ==
    /\ op.name \in DirectoryOps
    /\ calls # <<>>
    /\ op.reply.kind = "client_error"
    /\ "Error" \in DOMAIN op.reply.error.response
    /\ DOMAIN op.reply.error.response.Error = {"Code", "Message"}

\* The classification table of the directory client.
C4_Table(code) ==
    CASE code \in {"NotAuthorizedException", "UserNotFoundException",
                   "UserNotConfirmedException", "PasswordResetRequiredException"}
            -> "AuthenticationError"
      [] code \in {"AccessDeniedException", "UnauthorizedOperation"}
            -> "AuthorizationError"
      [] code \in {"InvalidParameterException", "InvalidPasswordException",
                   "UsernameExistsException", "AliasExistsException"}
            -> "ValidationError"
      [] code \in {"InternalErrorException", "TooManyRequestsException",
                   "ResourceNotFoundException"}
            -> "ServiceError"
      [] OTHER -> "ServiceError"

RequiredArguments ==
    CASE op.name \in {"authenticate", "create_user"} -> {op.email, op.password}
      [] op.name \in {"logout", "get_user_info"} -> {op.access_token}
      [] op.name = "delete_user" -> {op.email}

\* C5: a directory operation called with an empty or missing required
\* argument fails with a Validation error and makes no provider call;
\* authenticate with an empty password fails with 'Email and password are
\* required'.
C5_ArgumentsCheckedBeforeProvider ==
    op.name \in DirectoryOps =>
        /\ (\E x \in RequiredArguments : ~Truthy(x)) =>
              Raised(result, "ValidationError") /\ calls = <<>>
        /\ (op.name = "authenticate" /\ ~Truthy(op.password)) =>
              result = Raise(Exc("ValidationError", EmailPasswordRequiredMsg))

C5_Witness ==
    /\ op.name = "authenticate"
    /\ op.email = Str(<<"test@example.com">>)
    /\ op.password = Str(<<>>)
    /\ op.reply.kind = "ok"
    /\ result = Raise(Exc("ValidationError", EmailPasswordRequiredMsg))
    /\ calls = <<>>

(***************************************************************************)
(* Properties of the response builder (SpecResponse).                      *)
(***************************************************************************)
\* The default status of each category, and its label.
C11_DefaultStatus(cls) ==
    CASE IsA(cls, "ValidationError") -> 400
      [] IsA(cls, "AuthenticationError") -> 401
      [] IsA(cls, "AuthorizationError") -> 401
      [] IsA(cls, "ServiceError") -> 503
      [] OTHER -> 500

C11_Label(cls) ==
    CASE IsA(cls, "ValidationError") -> "BadRequest"
      [] IsA(cls, "AuthenticationError") -> "AuthenticationFailed"
      [] IsA(cls, "AuthorizationError") -> "Unauthorized"
      [] IsA(cls, "ServiceError") -> "ServiceUnavailable"
      [] OTHER -> "InternalServerError"

\* C11 as stated: every integer given as status_code becomes the statusCode.
C11_EveryIntegerOverrides ==
    (op.name = "create_auth_error_response" /\ op.status_code.t = "int") =>
        result.value.statusCode = op.status_code

\* C11: create_auth_error_response sets statusCode to the status code given
\* when that is a non-zero integer, and to the category's default (Validation
\* 400, Authentication 401, Authorization 401, Service 503, anything else
\* 500) when the status code is left out, None or 0; the body's error label
\* depends only on the category, whatever the status code.
C11_NonZeroStatusOverrides ==
    op.name = "create_auth_error_response" =>
        /\ result.kind = "return"
        /\ (op.status_code.t = "int" /\ op.status_code.v # 0) =>
              result.value.statusCode = op.status_code
        /\ (op.status_code \in {Omitted, None, IntV(0)}) =>
              result.value.statusCode = IntV(C11_DefaultStatus(op.error.cls))
        /\ result.value.body.error = C11_Label(op.error.cls)

C11_Witness ==
    /\ op.name = "create_auth_error_response"
    /\ op.error.cls = "AuthorizationError"
    /\ op.status_code = IntV(0)
    /\ result.value.statusCode = IntV(401)
    /\ result.value.body.error = "Unauthorized"

\* C12: create_success_response returns statusCode 200 when no status is
\* given and the given status otherwise, the data unchanged as body, and
\* exactly the four fixed headers, the same as create_auth_error_response
\* produces.
C12_SuccessEnvelope ==
    op.name = "create_success_response" =>
        /\ result.kind = "return"
        /\ op.status_code = Omitted => result.value.statusCode = IntV(200)
        /\ op.status_code # Omitted => result.value.statusCode = op.status_code
        /\ result.value.body = op.data
        /\ DOMAIN result.value.headers =
              {"Content-Type", "Access-Control-Allow-Origin",
               "Access-Control-Allow-Headers", "Access-Control-Allow-Methods"}
        /\ result.value.headers["Content-Type"] = "application/json"
        /\ result.value.headers["Access-Control-Allow-Origin"] = "*"
        /\ result.value.headers["Access-Control-Allow-Headers"] =
              "Content-Type,X-Amz-Date,Authorization,X-Api-Key,X-Amz-Security-Token"
        /\ result.value.headers["Access-Control-Allow-Methods"] =
              "GET,POST,PUT,DELETE,OPTIONS"
        /\ \A e \in ResponseErrors, sc \in StatusCodes :
              create_auth_error_response(e, sc).out.value.headers = result.value.headers

C12_Witness ==
    /\ op.name = "create_success_response"
    /\ op.data = [user_id |-> Str(<<"u1">>)]
    /\ op.status_code = IntV(0)
    /\ result.value.statusCode = IntV(0)
    /\ result.value.body = [user_id |-> Str(<<"u1">>)]

\* The message has the text as one of its parts.
Contains(msg, text) == \E i \in 1..Len(msg) : msg[i] = text

\* The provider rejected create_user with UsernameExistsException and a
\* message.
UsernameExistsRejected(request) ==
    /\ request.name = "create_user"
    /\ Truthy(request.email)
    /\ Truthy(request.password)
    /\ request.reply.kind = "client_error"
    /\ "Error" \in DOMAIN request.reply.error.response
    /\ DOMAIN request.reply.error.response.Error = {"Code", "Message"}
    /\ request.reply.error.response.Error.Code = "UsernameExistsException"

\* C13: when the provider rejects create_user with UsernameExistsException,
\* create_user raises a Validation error that carries the provider code and
\* whose message contains the provider's message; create_auth_error_response
\* on that error, with no status given, returns statusCode 400 and a body
\* message that contains the provider's message.
C13_UsernameExistsEndToEnd ==
    /\ UsernameExistsRejected(op) =>
          /\ Raised(result, "ValidationError")
          /\ result.exc.error_code = Str(<<"UsernameExistsException">>)
          /\ Contains(result.exc.msg, op.reply.error.response.Error.Message)
    /\ (/\ op.name = "create_auth_error_response"
        /\ UsernameExistsRejected(op.after)
        /\ op.status_code = Omitted)
       => /\ op.error.cls = "ValidationError"
          /\ result.kind = "return"
          /\ result.value.statusCode = IntV(400)
          /\ Contains(result.value.body.message,
                      op.after.reply.error.response.Error.Message)

C13_Witness ==
    /\ op.name = "create_auth_error_response"
    /\ UsernameExistsRejected(op.after)
    /\ op.after.reply.error.response.Error.Message = "User already exists"
    /\ op.status_code = Omitted
    /\ result.value.statusCode = IntV(400)
    /\ result.value.body.message = <<BadRequestPrefix, "User already exists">>

(***************************************************************************)
(* Properties of every operation.                                          *)
(***************************************************************************)
ErrorCategories == {"ValidationError", "AuthenticationError", "AuthorizationError",
                    "ServiceError"}

\* C17: every operation ends by returning a result or by raising an error
\* of one of the four categories Validation, Authentication, Authorization,
\* Service; no exception of another type escapes.
C17_OnlyClassifiedErrorsEscape ==
    ~Idle =>
        \/ result.kind = "return" /\ result.value # None
        \/ result.kind = "raise" /\ result.exc.cls \in ErrorCategories

(***************************************************************************)
(* Properties of the region (SpecConfig, SpecAuth).                        *)
(***************************************************************************)
\* The key-discovery URL of a pool in us-east-1.
UsEast1Url(user_pool_id) ==
    <<"https://cognito-idp.", "us-east-1", ".amazonaws.com/">> \o user_pool_id.v
    \o <<"/.well-known/jwks.json">>

\* The calls made to one collaborator.
CallsTo(api) == {i \in 1..Len(calls) : calls[i].api = api}

C18_WitnessFetch ==
    /\ op.name = "require_authentication"
    /\ op.region = Omitted
    /\ CallsTo("requests.get") # {}
    /\ CallsTo("TokenValidator") # {}

\* require_authentication was called without a region and the extraction
\* returned a token.
TokenExtractedNoRegion ==
    /\ op.name = "require_authentication"
    /\ op.region = Omitted
    /\ extract_token_from_event(op.event).kind = "return"

\* What C19 says of the region `region`: the token is extracted once, then
\* validate_and_extract_user_info is called once, with the extracted token,
\* the given pool id and `region`, and its result is the result.
C19_Delegates(region) ==
    /\ (op.name = "require_authentication" /\ op.region = Omitted) =>
          /\ Cardinality(CallsTo("extract_token_from_event")) = 1
          /\ calls[1] = [api |-> "extract_token_from_event", event |-> op.event]
    /\ TokenExtractedNoRegion =>
          /\ Cardinality(CallsTo("validate_and_extract_user_info")) = 1
          /\ calls[2] = [api |-> "validate_and_extract_user_info",
                         token |-> extract_token_from_event(op.event).value,
                         user_pool_id |-> op.user_pool_id,
                         region |-> region]
          /\ result = validate_and_extract_user_info(
                          extract_token_from_event(op.event).value, op.user_pool_id,
                          region, op.jwt, op.fetch, op.now).out

ValidatorCalls ==
    {i \in 1..Len(calls) :
        calls[i].api \in {"TokenValidator", "jwt.get_unverified_header", "requests.get",
                          "RSAAlgorithm.from_jwk", "jwt.decode"}}

\* require_authentication whose token extraction failed.
ExtractionFailed ==
    /\ op.name = "require_authentication"
    /\ extract_token_from_event(op.event).kind = "raise"

\* validate_and_extract_user_info given an empty token / an empty pool id.
EmptyTokenGiven ==
    /\ op.name = "validate_and_extract_user_info"
    /\ ~Truthy(op.token)
EmptyPoolIdGiven ==
    \/ /\ op.name = "validate_and_extract_user_info"
       /\ ~Truthy(op.user_pool_id)
    \/ /\ op.name = "require_authentication"
       /\ extract_token_from_event(op.event).kind = "return"
       /\ ~Truthy(op.user_pool_id)

\* C21: in the inbound path a stage runs only after the earlier ones
\* succeeded. When token extraction fails inside require_authentication the
\* extraction's error is the result; when validate_and_extract_user_info is
\* given an empty token it raises the Validation error 'authentication
\* required', and given an empty pool id the Validation error 'User pool ID
\* is required'; in each case no validator is constructed and no key-set
\* fetch is issued. With both empty, the token guard's message is reported.
C21_StagesGuardTheValidator ==
    /\ ExtractionFailed =>
          /\ result = extract_token_from_event(op.event)
          /\ calls = <<ExtractCall(op.event)>>
          /\ ValidatorCalls = {}
    /\ EmptyTokenGiven =>
          /\ result = Raise(Exc("ValidationError", AuthRequiredMsg))
          /\ ValidatorCalls = {}
    /\ (EmptyPoolIdGiven /\ ~EmptyTokenGiven) =>
          /\ result = Raise(Exc("ValidationError", PoolIdRequiredMsg))
          /\ ValidatorCalls = {}

\* Both the token and the pool id are empty.
C21_Witness ==
    /\ EmptyTokenGiven
    /\ op.user_pool_id = None
    /\ result = Raise(Exc("ValidationError", AuthRequiredMsg))
    /\ calls = <<>>

\* Extraction fails inside require_authentication.
C21_WitnessExtraction ==
    /\ ExtractionFailed
    /\ op.user_pool_id = ValidatorPoolId
    /\ result.kind = "raise"
    /\ calls = <<ExtractCall(op.event)>>

\* An extracted token meets an empty pool id.
C21_WitnessPoolId ==
    /\ op.name = "require_authentication"
    /\ EmptyPoolIdGiven
    /\ result = Raise(Exc("ValidationError", PoolIdRequiredMsg))
    /\ Len(calls) = 2

(***************************************************************************)
(* The directory client: provider calls, unexpected failures, logging.     *)
(***************************************************************************)
\* A directory operation called with every required argument non-empty.
ValidArguments ==
    /\ op.name \in DirectoryOps
    /\ \A x \in RequiredArguments : Truthy(x)

\* The provider API each operation calls.
ProviderApi ==
    CASE op.name = "authenticate" -> "initiate_auth"
      [] op.name = "logout" -> "global_sign_out"
      [] op.name = "get_user_info" -> "get_user"
      [] op.name = "create_user" -> "admin_create_user"
      [] op.name = "delete_user" -> "admin_delete_user"

\* C22: a directory operation called with non-empty arguments issues exactly
\* one provider call, however the call ends: a provider error of any code or
\* a transport failure is not retried, and a success is followed by no
\* second call.
C22_ExactlyOneProviderCall ==
    ValidArguments =>
        /\ Len(calls) = 1
        /\ calls[1].api = ProviderApi

\* A transport failure, answered with one call.
C22_Witness ==
    /\ ValidArguments
    /\ op.name = "logout"
    /\ op.reply.kind = "error"
    /\ Raised(result, "ServiceError")
    /\ Len(calls) = 1

\* A success, followed by no second call.
C22_WitnessSuccess ==
    /\ ValidArguments
    /\ op.name = "logout"
    /\ op.reply.kind = "ok"
    /\ result.kind = "return"
    /\ Len(calls) = 1

\* `sub` is a contiguous part of the message `msg`.
ContainsSeq(msg, sub) ==
    \E i \in 0..(Len(msg) - Len(sub)) : SubSeq(msg, i + 1, i + Len(sub)) = sub

\* The provider call raised something that is no provider error.
ProviderRaisedOther ==
    /\ ValidArguments
    /\ op.reply.kind = "error"

\* The provider call raised a provider error that lacks the code or the
\* message.
ProviderErrorIncomplete ==
    /\ ValidArguments
    /\ op.reply.kind = "client_error"
    /\ \/ "Error" \notin DOMAIN op.reply.error.response
       \/ DOMAIN op.reply.error.response.Error # {"Code", "Message"}

\* The provider returned a response whose normalization raises.
NormalizationRaised ==
    /\ ValidArguments
    /\ op.name \in {"authenticate", "get_user_info", "create_user"}
    /\ op.reply.kind = "ok"
    /\ op.reply.response = None

\* The result is a Service error without a provider code, whose message
\* contains the message of the exception it wraps.
WrapsItsCause ==
    /\ Raised(result, "ServiceError")
    /\ result.exc.error_code = None
    /\ result.exc.original_error # None
    /\ ContainsSeq(result.exc.msg, result.exc.original_error.msg)

\* C23: in every directory operation an exception of the provider call or
\* of the normalization that carries no provider error code (a transport
\* failure, a programming error, a provider error lacking the code or the
\* message) reaches the caller as a Service error without a provider code,
\* whose message contains the original message and whose cause is the
\* original exception.
C23_UncodedFailuresAreWrapped ==
    /\ NormalizationRaised => WrapsItsCause
    /\ ProviderRaisedOther =>
          WrapsItsCause /\ result.exc.original_error = op.reply.error
    /\ ProviderErrorIncomplete =>
          WrapsItsCause /\ result.exc.original_error = op.reply.error

\* The part of C23 the code keeps: failures that are no provider error.
C23_OtherFailuresAreWrapped ==
    /\ NormalizationRaised => WrapsItsCause
    /\ ProviderRaisedOther =>
          WrapsItsCause /\ result.exc.original_error = op.reply.error

C23_WitnessTransport ==
    /\ ProviderRaisedOther
    /\ op.name = "get_user_info"
    /\ op.reply.error.cls = "EndpointConnectionError"
    /\ WrapsItsCause

C23_WitnessNormalization ==
    /\ NormalizationRaised
    /\ op.name = "create_user"
    /\ WrapsItsCause
    /\ result.exc.original_error.cls = "AttributeError"

\* C24: when a directory operation raises an error classified from a
\* provider error code, the call has logged, at warning level, an entry with
\* the provider's code and message, nothing else was logged in the call, and
\* the error carries the code and, as its cause, the provider error.
C24_ClassifiedErrorsAreLoggedFirst ==
    ProviderCodeGiven =>
        /\ result.kind = "raise"
        /\ Len(log) = 1
        /\ log[1].level = "warning"
        /\ Contains(log[1].msg, op.reply.error.response.Error.Code)
        /\ Contains(log[1].msg, op.reply.error.response.Error.Message)
        /\ result.exc.error_code = Str(<<op.reply.error.response.Error.Code>>)
        /\ result.exc.original_error = op.reply.error

\* The log is written inside the call that raises: it is empty when the
\* call starts.
C24_LoggedInTheSameCall ==
    [][(Idle /\ ProviderCodeGiven') => (log = <<>> /\ Len(log') = 1)]_vars

C24_Witness ==
    /\ ProviderCodeGiven
    /\ op.name = "authenticate"
    /\ op.reply.error.response.Error.Code = "TooManyRequestsException"
    /\ op.reply.error.response.Error.Message = "Rate exceeded"
    /\ Raised(result, "ServiceError")
    /\ log = <<WarningLog(<<"Authentication failed", ": ", "TooManyRequestsException",
                            " - ", "Rate exceeded">>)>>

(***************************************************************************)
(* Infrastructure failures: what is logged and what the caller receives.   *)
(***************************************************************************)
\* The request `request` ran into a key-set fetch error.
FetchErrorIn(request) ==
    /\ request.name = "validate_token"
    /\ Truthy(request.token)
    /\ request.jwt.header_ok
    /\ Truthy(request.jwt.kid)
    /\ ~Truthy(request.cache)
    /\ request.fetch.kind = "raise"
    /\ IsA(request.fetch.exc.cls, "RequestException")

\* The fetch of `request` raised an exception of another kind.
UnexpectedFetchErrorIn(request) ==
    /\ request.name = "validate_token"
    /\ Truthy(request.token)
    /\ request.jwt.header_ok
    /\ Truthy(request.jwt.kid)
    /\ ~Truthy(request.cache)
    /\ request.fetch.kind = "raise"
    /\ ~IsA(request.fetch.exc.cls, "RequestException")

\* The provider answered `request` with a code that is mapped to Service.
ServiceCodeIn(request) ==
    /\ request.name = "authenticate"
    /\ Truthy(request.email)
    /\ Truthy(request.password)
    /\ request.reply.kind = "client_error"
    /\ "Error" \in DOMAIN request.reply.error.response
    /\ DOMAIN request.reply.error.response.Error = {"Code", "Message"}
    /\ C4_Table(request.reply.error.response.Error.Code) = "ServiceError"

\* The provider call of `request` raised an unexpected exception.
UnexpectedErrorIn(request) ==
    /\ request.name = "authenticate"
    /\ Truthy(request.email)
    /\ Truthy(request.password)
    /\ request.reply.kind = "error"

InfrastructureFailure(request) ==
    \/ FetchErrorIn(request)
    \/ UnexpectedFetchErrorIn(request)
    \/ ServiceCodeIn(request)
    \/ UnexpectedErrorIn(request)

\* The diagnostic detail of the failure: the text of the underlying
\* exception, or the provider's message.
DetailOf(request) ==
    IF request.name = "validate_token" THEN request.fetch.exc.msg
    ELSE IF request.reply.kind = "client_error"
    THEN <<request.reply.error.response.Error.Message>>
    ELSE request.reply.error.msg

\* The fixed text the Service error's message starts with.
PrefixOf(request) ==
    IF FetchErrorIn(request) THEN JwksFailedPrefix
    ELSE IF UnexpectedFetchErrorIn(request) THEN TokenValidationErrorPrefix
    ELSE IF UnexpectedErrorIn(request) THEN "Unexpected error during authentication: "
    ELSE IF request.reply.error.response.Error.Code \in
                {"InternalErrorException", "TooManyRequestsException",
                 "ResourceNotFoundException"}
    THEN ServiceErrorPrefix
    ELSE UnexpectedErrorPrefix

\* The request whose failure the state shows: the operation itself, or the
\* operation whose error the response was built from.
FailedRequest ==
    IF op.name = "create_auth_error_response" THEN op.after ELSE op

\* What the caller receives: the message of the error raised, or the
\* message in the body of the response built from it.
ReceivedMessage ==
    IF op.name = "create_auth_error_response" THEN result.value.body.message
    ELSE result.exc.msg

DetailLogged ==
    \E i \in 1..Len(log) : ContainsSeq(log[i].msg, DetailOf(op))

\* C25 as stated: the detail of an infrastructure failure is logged, and no
\* part of what the caller receives: neither the Service error's message
\* nor the body message of the response built from it carries the detail.
C25_DetailIsLoggedNotReturned ==
    /\ InfrastructureFailure(op) =>
          /\ Raised(result, "ServiceError")
          /\ DetailLogged
    /\ InfrastructureFailure(FailedRequest) =>
          ~ContainsSeq(ReceivedMessage, DetailOf(FailedRequest))

\* C25: for an infrastructure failure (key-set fetch error, provider code
\* mapped to Service, unexpected exception) the caller receives a Service
\* error whose message is a fixed prefix followed by the diagnostic detail,
\* and the response built from it has that message in its body and the
\* error type ServiceUnavailable, so both vary with the detail.  The detail
\* is logged for a provider code (warning) and for an unexpected exception
\* inside validate_token (error); a key-set fetch error and an unexpected
\* exception of a directory operation are not logged.
C25_DetailIsReturnedAfterFixedPrefix ==
    /\ InfrastructureFailure(op) =>
          /\ Raised(result, "ServiceError")
          /\ (ServiceCodeIn(op) \/ UnexpectedFetchErrorIn(op)) =>
                /\ Len(log) = 1
                /\ log[1].level = IF ServiceCodeIn(op) THEN "warning" ELSE "error"
                /\ DetailLogged
          /\ (FetchErrorIn(op) \/ UnexpectedErrorIn(op)) => log = <<>>
    /\ InfrastructureFailure(FailedRequest) =>
          ReceivedMessage = <<PrefixOf(FailedRequest)>> \o DetailOf(FailedRequest)
    /\ (op.name = "create_auth_error_response" /\ InfrastructureFailure(op.after)) =>
          /\ result.value.body.error = "ServiceUnavailable"
          /\ op.status_code \in {Omitted, None} => result.value.statusCode = IntV(503)

\* A key-set fetch error: nothing is logged, the detail is in the message.
C25_Witness ==
    /\ FetchErrorIn(op)
    /\ op.fetch.exc.cls = "Timeout"
    /\ log = <<>>
    /\ result = Raise(Exc("ServiceError", <<JwksFailedPrefix, "fetch failed: ", "Timeout">>))

\* The response built from a provider code mapped to Service.
C25_WitnessResponse ==
    /\ op.name = "create_auth_error_response"
    /\ ServiceCodeIn(op.after)
    /\ op.status_code = Omitted
    /\ result.value.statusCode = IntV(503)
    /\ result.value.body.message = <<UnexpectedErrorPrefix, "Rate exceeded">>

\* The response built from a key-set fetch error.
C25_WitnessFetchResponse ==
    /\ op.name = "create_auth_error_response"
    /\ FetchErrorIn(op.after)
    /\ result.value.body.message = <<JwksFailedPrefix, "fetch failed: ", "HTTPError">>

(***************************************************************************)
(* A validator that is reused, and one constructed for the call.           *)
(***************************************************************************)
\* What a validator constructed at this moment does with the call's token.
FreshValidator ==
    validate_token(None, ValidatorUrl, op.token, op.jwt, op.fetch, op.now)

\* The call ran on a validator that had fetched a key set before.
ReusedWithKeySet ==
    /\ op.name = "validate_token"
    /\ Truthy(op.cache)

\* C27 as stated: whatever the validator has cached, the call ends as it
\* would on a validator constructed at that moment, and issues no more
\* fetches than that one.
C27_ReuseNeverChangesAnOutcome ==
    op.name = "validate_token" =>
        /\ result = FreshValidator.out
        /\ Cardinality(FetchesMade) <= 1

\* C27: a call on a reused validator ends as it would on a validator
\* constructed at that moment, provided the key-discovery endpoint would at
\* that moment serve the document the reused validator holds; the reused
\* validator then issues no fetch where the new one issues at most one.  A
\* validator whose cache is empty ends as a new one and makes the same calls.
C27_ReuseKeepsOutcomeWhileKeySetIsCurrent ==
    /\ (ReusedWithKeySet /\ op.fetch = Return(op.cache)) =>
          /\ result = FreshValidator.out
          /\ log = FreshValidator.log
          /\ FetchesMade = {}
    /\ (op.name = "validate_token" /\ ~Truthy(op.cache)) =>
          /\ result = FreshValidator.out
          /\ calls = FreshValidator.calls

\* A reused validator passes a token where a new one fetches as well.
C27_Witness ==
    /\ ReusedWithKeySet
    /\ op.cache = GoodKeySet
    /\ op.fetch = Return(GoodKeySet)
    /\ result.kind = "return"
    /\ FetchesMade = {}
    /\ \E i \in 1..Len(FreshValidator.calls) : FreshValidator.calls[i].api = "requests.get"

\* Where the outcomes part: the endpoint fails at the moment of the call.
C27_WitnessStale ==
    /\ ReusedWithKeySet
    /\ op.cache = GoodKeySet
    /\ op.fetch.kind = "raise"
    /\ result.kind = "return"
    /\ Raised(FreshValidator.out, "ServiceError")

(***************************************************************************)
(* The validator of validate_and_extract_user_info lives for one call.     *)
(***************************************************************************)
\* A call of the inbound path whose token is non-empty and has a header
\* with a key id.
KeyedTokenGiven ==
    \/ /\ op.name = "validate_and_extract_user_info"
       /\ Truthy(op.token)
       /\ op.jwt.header_ok
       /\ Truthy(op.jwt.kid)
    \/ /\ op.name = "require_authentication"
       /\ extract_token_from_event(op.event).kind = "return"
       /\ op.jwt.header_ok
       /\ Truthy(op.jwt.kid)

\* C28 as stated: every such call issues exactly one key-set fetch.
C28_EveryKeyedCallFetchesOnce ==
    KeyedTokenGiven => Cardinality(FetchesMade) = 1

\* C28: validate_and_extract_user_info and require_authentication called
\* with a non-empty pool id construct one validator in the call, and when
\* the token is non-empty and has a header with a key id they issue exactly
\* one key-set fetch, whatever key set a validator fetched before; called
\* with an empty pool id they issue none.
C28_KeyedCallWithPoolIdFetchesOnce ==
    /\ (KeyedTokenGiven /\ Truthy(op.user_pool_id)) =>
          /\ Cardinality(CallsTo("TokenValidator")) = 1
          /\ Cardinality(FetchesMade) = 1
    /\ (KeyedTokenGiven /\ ~Truthy(op.user_pool_id)) =>
          /\ CallsTo("TokenValidator") = {}
          /\ FetchesMade = {}

\* The key set was fetched before from the same URL, and is fetched again.
C28_Witness ==
    /\ KeyedTokenGiven
    /\ op.name = "validate_and_extract_user_info"
    /\ jwks_cache = GoodKeySet
    /\ op.user_pool_id = ValidatorPoolId
    /\ op.region = ValidatorRegion
    /\ op.fetch = Return(GoodKeySet)
    /\ FetchesMade # {}
    /\ \A i \in FetchesMade : calls[i] = FetchCall(ValidatorUrl)
    /\ result.kind = "return"

C28_WitnessEvent ==
    /\ KeyedTokenGiven
    /\ op.name = "require_authentication"
    /\ jwks_cache = GoodKeySet
    /\ op.user_pool_id = ValidatorPoolId
    /\ Cardinality(FetchesMade) = 1

(***************************************************************************)
(* Concurrent calls on one validator (SpecRace).                           *)
(***************************************************************************)
\* The documents the calls have fetched so far.
FetchedBy ==
    {j \in Threads : threads[j].fetch # Unset /\ threads[j].fetch.kind = "return"}
FetchedDocs == {threads[j].fetch.value : j \in FetchedBy}

\* How the call of thread i ends when it runs alone on a validator whose
\* cache is what the call saw.
Alone(i) ==
    validate_token(threads[i].seen, ValidatorUrl, TokenString, threads[i].jwt,
                   threads[i].fetch, 1).out

\* Each call that saw the cache empty issues one fetch of its own, a call
\* that saw it filled none.
OwnFetchPerEmptySight ==
    \A i \in Threads :
        /\ threads[i].fetches <= 1
        /\ threads[i].pc \in {"write", "lookup", "done"} =>
              threads[i].fetches = IF Truthy(threads[i].seen) THEN 0 ELSE 1

\* No call waits for another: a call that has not ended can take its step.
NoCallBlocks ==
    \A i \in Threads :
        threads[i].pc \notin {"idle", "done"} =>
            ENABLED (Check(i) \/ Fetch(i) \/ Write(i) \/ Lookup(i))

\* A call that looked its key up did so in a document some call fetched.
LookupInFetchedDocument ==
    \A i \in Threads : threads[i].used # Unset => threads[i].used \in FetchedDocs

\* No call ends otherwise than it would alone.
NoCallFailsByTheRace ==
    \A i \in Threads : threads[i].pc = "done" => threads[i].out = Alone(i)

\* A call that started when the cache had been filled issues no fetch.
NoFetchAfterFill ==
    \A i \in Threads :
        (threads[i].pc = "done" /\ threads[i].at_start # None) => threads[i].fetches = 0

\* C26 as stated: each call that saw the cache empty fetches once, no call
\* blocks or ends otherwise than it would alone, every lookup is made in a
\* fetched document, and a call that starts after the cache was filled
\* issues no fetch.
C26_RaceIsBenign ==
    /\ OwnFetchPerEmptySight
    /\ NoCallBlocks
    /\ LookupInFetchedDocument
    /\ NoCallFailsByTheRace
    /\ NoFetchAfterFill

\* Every fetch so far returned the same, non-empty document.
OneKeySetServed ==
    /\ Cardinality(FetchedDocs) <= 1
    /\ \A d \in FetchedDocs : Truthy(d)

\* C26: each call that saw the cache empty fetches once (the cache may be
\* written by several), no call blocks, and every lookup is made in a
\* complete document that some call fetched: the one the cache holds at the
\* lookup.  While every fetch returns the same non-empty document, no call
\* ends otherwise than it would alone, and a call that starts after the
\* cache was filled issues no fetch.
C26_RaceIsBenignWhileOneKeySetIsServed ==
    /\ OwnFetchPerEmptySight
    /\ NoCallBlocks
    /\ LookupInFetchedDocument
    /\ OneKeySetServed => (NoCallFailsByTheRace /\ NoFetchAfterFill)

\* Two calls saw the cache empty, both fetched and both wrote; both pass.
C26_Witness ==
    /\ OneKeySetServed
    /\ \A i \in {1, 2} :
          /\ threads[i].pc = "done"
          /\ threads[i].seen = None
          /\ threads[i].fetches = 1
          /\ threads[i].wrote
          /\ threads[i].out.kind = "return"

\* A call that started after the cache was filled and issued no fetch.
C26_WitnessLate ==
    /\ OneKeySetServed
    /\ threads[1].pc = "done" /\ threads[1].wrote
    /\ threads[2].pc = "done" /\ threads[2].at_start = GoodKeySet
    /\ threads[2].fetches = 0
    /\ threads[2].out.kind = "return"

\* A call that fetched the key set looks its key up in the document another
\* call stored meanwhile, and is turned away.
C26_WitnessOverwritten ==
    /\ threads[1].pc = "done"
    /\ threads[1].fetch = Return(GoodKeySet)
    /\ threads[1].used # GoodKeySet
    /\ Raised(threads[1].out, "AuthorizationError")
    /\ Alone(1).kind = "return"

====
